---- MODULE Spec2Model ----
(***************************************************************************)
(* State-machine model of the mDNSResponder based mDNS publisher           *)
(* (PublisherMDnsSd): Start/Stop, service/host/key registrations, the      *)
(* shared "hosts and keys" connection handle, subscriptions and the        *)
(* Update/Process main-loop adapter.                                       *)
(*                                                                         *)
(* Handlers are operators from a publisher snapshot S (a record holding    *)
(* every field of the publisher plus the daemon's handle tables) to the    *)
(* snapshot after the handler; an action applies one handler to the        *)
(* current variables and commits the result.  Every daemon call, callback  *)
(* invocation and handle release a handler performs is appended to S.log,  *)
(* the event trace of the most recent handler.                             *)
(***************************************************************************)
EXTENDS Integers, Sequences, FiniteSets, TLC

VARIABLES
    mState,                \* State::kIdle / State::kReady
    mHostsAndKeysRef,      \* shared connection handle, 0 = nullptr
    mServiceRegistrations, \* map full service name -> DnssdServiceRegistration
    mHostRegistrations,    \* map full host name -> DnssdHostRegistration
    mKeyRegistrations,     \* map full key name -> DnssdKeyRegistration
    mSubscribedServices,   \* list of ServiceSubscription
    mSubscribedHosts,      \* list of HostSubscription
    liveRefs,              \* daemon side: DNSServiceRefs currently allocated
    liveRecs,              \* daemon side: DNSRecordRefs currently registered
    callbacks,             \* per caller callback: "free", "pending", "once", "twice"
    crashed,               \* the process was terminated (uncaught exception)
    mReadFdSet,            \* descriptors contributed by the last Update
    lastOp,                \* the handler that just ran and its arguments, NoOp
                           \* once control is back in the main loop
    log,                   \* events emitted by the handler that just ran
    app                    \* the application around the publisher: what its
                           \* components hold subscribed

vars == <<mState, mHostsAndKeysRef, mServiceRegistrations, mHostRegistrations,
          mKeyRegistrations, mSubscribedServices, mSubscribedHosts, liveRefs,
          liveRecs, callbacks, crashed, mReadFdSet, lastOp, log, app>>

(***************************************************************************)
(* Bounds of the model.                                                    *)
(***************************************************************************)
MaxRefs == 3       \* DNSServiceRef handles the daemon can hand out
MaxRecs == 2       \* DNSRecordRef handles the daemon can hand out
MaxCb == 3         \* caller callbacks tracked at the same time
MaxBatch == 1      \* replies one DNSServiceProcessResult call can deliver
MaxRegs == 2       \* registrations stored at the same time, over the three maps
MaxSubs == 1       \* subscriptions held at the same time, over the two lists
MaxSubscriptions == 2   \* the same, for a publisher used for discovery only
MaxChildren == 1   \* resolution children one browsing subscription holds
MaxSubTypes == 3    \* sub-types in one sub-type list
MaxAddresses == 2  \* addresses a host subscription collects

RefPool == 1..MaxRefs
RecPool == 1..MaxRecs
CbIds == 1..MaxCb

kIdle == "Idle"
kReady == "Ready"

kDomain == "local."

(***************************************************************************)
(* Inputs the callers and the daemon draw from.                            *)
(***************************************************************************)
DefaultName == "D"                      \* name the daemon picks for an empty instance name
ServiceNames == {"", DefaultName}
ServiceTypes == {"_t"}
ServiceParams == {1, 2}                 \* host name, sub-types, port and TXT data as one value
HostNames == {"h"}
AddressLists == {<<>>, <<"a1">>, <<"a1", "a2">>}
KeyNames == {"k", "D._t"}
KeyDatas == {1, 2}

SyncErrors == {"BadParam"}                            \* synchronous daemon call failures
ReplyErrors == {"NoError", "NameConflict"}            \* error codes of asynchronous replies

(***************************************************************************)
(* Error mapper.                                                           *)
(***************************************************************************)
\* the values of DNSServiceErrorType (dns_sd.h)
DNSServiceErrors ==
    {"NoError", "Unknown", "NoSuchName", "NoMemory", "BadParam", "BadReference",
     "BadState", "BadFlags", "Unsupported", "NotInitialized", "AlreadyRegistered",
     "NameConflict", "Invalid", "Firewall", "Incompatible", "BadInterfaceIndex",
     "Refused", "NoSuchRecord", "NoAuth", "NoSuchKey", "NATTraversal", "DoubleNAT",
     "BadTime", "BadSig", "BadKey", "Transient", "ServiceNotRunning",
     "NATPortMappingUnsupported", "NATPortMappingDisabled", "NoRouter",
     "PollingMode", "Timeout", "DefunctConnection", "PolicyDenied", "NotPermitted"}

\* a mapper whose switch lacks the kDNSServiceErr_ServiceNotRunning case
DNSErrorToOtbrErrorNoInvalidState(aError) ==
    CASE aError = "NoError" -> "NONE"
      [] aError \in {"NoSuchKey", "NoSuchName", "NoSuchRecord"} -> "NOT_FOUND"
      [] aError \in {"Invalid", "BadParam", "BadFlags", "BadInterfaceIndex"} -> "INVALID_ARGS"
      [] aError = "NameConflict" -> "DUPLICATED"
      [] aError = "Unsupported" -> "NOT_IMPLEMENTED"
      [] OTHER -> "MDNS"

DNSErrorToOtbrError(aError) ==
    CASE aError = "NoError" -> "NONE"
      [] aError \in {"NoSuchKey", "NoSuchName", "NoSuchRecord"} -> "NOT_FOUND"
      [] aError \in {"Invalid", "BadParam", "BadFlags", "BadInterfaceIndex"} -> "INVALID_ARGS"
      [] aError = "NameConflict" -> "DUPLICATED"
      [] aError = "Unsupported" -> "NOT_IMPLEMENTED"
      [] aError = "ServiceNotRunning" -> "INVALID_STATE"
      [] OTHER -> "MDNS"

(***************************************************************************)
(* Names.                                                                  *)
(***************************************************************************)
MakeFullName(aName) == aName \o "." \o kDomain
MakeFullServiceName(aName, aType) == aName \o "." \o aType \o "." \o kDomain
MakeFullHostName(aName) == MakeFullName(aName)
MakeFullKeyName(aName) == MakeFullName(aName)

\* Sub-type names, in the lexical order std::sort puts them in.
SubTypeNames == <<"_a", "_b", "_c">>
RegTypes == {"_test._udp", "_meshcop._udp"}

\* the registration type without the sort of the sub-type list
MakeRegTypeUnsorted(aType, aSubTypeList) ==
    LET RECURSIVE Join(_, _)
        Join(regType, l) ==
            IF l = <<>> THEN regType ELSE Join(regType \o "," \o Head(l), Tail(l))
    IN Join(aType, aSubTypeList)

MakeRegType(aType, aSubTypeList) ==
    LET Rank(subType) == CHOOSE i \in 1..Len(SubTypeNames) : SubTypeNames[i] = subType
        \* std::sort(aSubTypeList.begin(), aSubTypeList.end())
        RECURSIVE Sort(_)
        Sort(l) ==
            IF l = <<>> THEN <<>>
            ELSE LET i == CHOOSE i \in 1..Len(l) :
                              \A j \in 1..Len(l) :
                                  \/ Rank(l[i]) < Rank(l[j])
                                  \/ Rank(l[i]) = Rank(l[j]) /\ i <= j
                 IN <<l[i]>> \o Sort(SubSeq(l, 1, i - 1) \o SubSeq(l, i + 1, Len(l)))
        \* regType += "," + subType, for each sub-type
        RECURSIVE Join(_, _)
        Join(regType, l) ==
            IF l = <<>> THEN regType ELSE Join(regType \o "," \o Head(l), Tail(l))
    IN Join(aType, Sort(aSubTypeList))

\* std::map orders its keys lexicographically; every key the inputs can
\* produce, in that order.
SortedKeys == <<"._t.local.", "D._t.local.", "h.local.", "k.local.">>
KeyRank(k) == CHOOSE i \in 1..Len(SortedKeys) : SortedKeys[i] = k

(***************************************************************************)
(* Small helpers on sequences and sets.                                    *)
(***************************************************************************)
Range(s) == {s[i] : i \in 1..Len(s)}
Min(set) == CHOOSE x \in set : \A y \in set : x <= y
RemoveAt(s, i) == SubSeq(s, 1, i - 1) \o SubSeq(s, i + 1, Len(s))
InsertAt(s, i, e) == SubSeq(s, 1, i - 1) \o <<e>> \o SubSeq(s, i, Len(s))

\* a lookup that never finds the entry
MapFindNothing(m, k) == 0

MapFind(m, k) ==
    IF \E i \in 1..Len(m) : m[i].key = k
    THEN Min({i \in 1..Len(m) : m[i].key = k})
    ELSE 0

\* std::map::emplace position: before the first entry with a larger key.
MapSlot(m, k) ==
    IF \E i \in 1..Len(m) : KeyRank(m[i].key) > KeyRank(k)
    THEN Min({i \in 1..Len(m) : KeyRank(m[i].key) > KeyRank(k)})
    ELSE Len(m) + 1

(***************************************************************************)
(* Events.                                                                 *)
(***************************************************************************)
Ev(ev, id, rec, err, ok) == [ev |-> ev, id |-> id, rec |-> rec, err |-> err, ok |-> ok]
\* Nothing happens in a process that was terminated.
Emit(S, e) == IF S.crashed THEN S ELSE [S EXCEPT !.log = Append(@, e)]
Terminate(S, id, what) ==
    [Emit(S, Ev("terminate", id, 0, what, FALSE)) EXCEPT !.crashed = TRUE]

(***************************************************************************)
(* Caller callbacks (OnceCallback).  A callback value is the sequence of   *)
(* caller callbacks it invokes, <<>> being the null callback; moving a     *)
(* callback leaves <<>> behind.                                            *)
(***************************************************************************)
Bump(c) == IF c = "pending" THEN "once" ELSE "twice"

RECURSIVE InvokeCallback(_, _, _)
InvokeCallback(S, aCallback, aError) ==
    IF aCallback = <<>> \/ S.crashed THEN S
    ELSE LET id == Head(aCallback)
             S1 == Emit([S EXCEPT !.callbacks[id] = Bump(@)], Ev("cb", id, 0, aError, TRUE))
         IN InvokeCallback(S1, Tail(aCallback), aError)

\* std::move(aCallback)(aError) on a callback whose target was moved out:
\* the empty std::function throws std::bad_function_call, nothing catches it.
InvokeOrTerminate(S, aCallback, aError) ==
    IF aCallback = <<>> THEN Terminate(S, 0, "bad_function_call")
    ELSE InvokeCallback(S, aCallback, aError)

HeldCallbacks(S) ==
    UNION ({Range(S.svc[i].mCallback) : i \in 1..Len(S.svc)}
           \cup {Range(S.host[i].mCallback) : i \in 1..Len(S.host)}
           \cup {Range(S.key[i].mCallback) : i \in 1..Len(S.key)})

\* A callback that ran exactly once and is held nowhere is forgotten.
Settle(S) ==
    [S EXCEPT !.callbacks =
        [id \in CbIds |-> IF S.callbacks[id] = "once" /\ id \notin HeldCallbacks(S)
                          THEN "free" ELSE S.callbacks[id]]]

FreeCallbacks == {id \in CbIds : callbacks[id] = "free"}
NewCallback == Min(FreeCallbacks)

(***************************************************************************)
(* The daemon's handle tables.  S.live holds one record per allocated      *)
(* DNSServiceRef (parent = the connection it shares, 0 for a connection of *)
(* its own); S.recs one record per registered DNSRecordRef.  A handle      *)
(* number is handed out again only when nothing refers to it any more, so  *)
(* a dangling handle stays recognisable.                                   *)
(***************************************************************************)
LiveIds(S) == {r.ref : r \in S.live}
LiveRecIds(S) == {r.rec : r \in S.recs}

RECURSIVE ChildRefs(_)
ChildRefs(children) ==
    IF children = <<>> THEN {} ELSE {Head(children).mServiceRef} \cup ChildRefs(Tail(children))

ReferencedRefs(S) ==
    {S.hk}
    \cup {S.svc[i].mServiceRef : i \in 1..Len(S.svc)}
    \cup {S.key[i].mServiceRef : i \in 1..Len(S.key)}
    \cup {S.host[i].mServiceRef : i \in 1..Len(S.host)}
    \cup {S.ssub[i].mServiceRef : i \in 1..Len(S.ssub)}
    \cup UNION {ChildRefs(S.ssub[i].mResolvingInstances) : i \in 1..Len(S.ssub)}
    \cup {S.hsub[i].mServiceRef : i \in 1..Len(S.hsub)}

ReferencedRecs(S) ==
    {S.key[i].mRecordRef : i \in 1..Len(S.key)}
    \cup UNION {{S.host[i].mRecordRefMap[j].rec : j \in 1..Len(S.host[i].mRecordRefMap)}
                : i \in 1..Len(S.host)}

FreeRefs(S) == RefPool \ (LiveIds(S) \cup ReferencedRefs(S))
FreeRecs(S) == RecPool \ (LiveRecIds(S) \cup ReferencedRecs(S))

AllocRef(S, ref, parent, name) ==
    [S EXCEPT !.live = @ \cup {[ref |-> ref, parent |-> parent, name |-> name]}]
AllocRec(S, rec, conn, kind) ==
    [S EXCEPT !.recs = @ \cup {[rec |-> rec, conn |-> conn, kind |-> kind, awaiting |-> kind # "added"]}]

\* A daemon call handed a DNSServiceRef or DNSRecordRef that was freed reads
\* freed memory.  The behaviour is undefined: the library's validity check
\* may still see the poisoned handle and answer kDNSServiceErr_BadReference,
\* or the process dies.  S.abort is the outcome this handler run gets.
Freed(S, ref) == ref \notin LiveIds(S)
FreedRec(S, rec) == rec \notin LiveRecIds(S)
UseAfterFree(S, ref) == Terminate(S, ref, "use-after-free")

\* DNSServiceRefDeallocate: frees the handle; freeing a connection also frees
\* every operation sharing it, and the daemon drops the records registered on
\* a freed handle.
DNSServiceRefDeallocate(S, ref) ==
    IF S.crashed THEN S
    ELSE IF Freed(S, ref) /\ S.abort THEN UseAfterFree(S, ref)
    ELSE LET gone == {r \in S.live : r.ref = ref \/ r.parent = ref}
             ids == {r.ref : r \in gone}
             S1 == Emit(S, Ev("RefDeallocate", ref, 0, "", ~Freed(S, ref)))
         IN [S1 EXCEPT !.live = @ \ gone, !.recs = {r \in @ : r.conn \notin ids}]

RecordLive(S, ref, rec) == \E r \in S.recs : r.rec = rec /\ r.conn = ref

\* DNSServiceUpdateRecord(ref, rec, ttl = 1); its result is only logged.
DNSServiceUpdateRecord(S, ref, rec, result) ==
    IF S.crashed THEN S
    ELSE IF (Freed(S, ref) \/ FreedRec(S, rec)) /\ S.abort THEN UseAfterFree(S, ref)
    ELSE Emit(S, Ev("UpdateRecord", ref, rec,
                    IF RecordLive(S, ref, rec) THEN result ELSE "BadReference",
                    ~Freed(S, ref)))

\* DNSServiceRemoveRecord(ref, rec); its result is only logged.
DNSServiceRemoveRecord(S, ref, rec) ==
    IF S.crashed THEN S
    ELSE IF (Freed(S, ref) \/ FreedRec(S, rec)) /\ S.abort THEN UseAfterFree(S, ref)
    ELSE LET ok == RecordLive(S, ref, rec)
             S1 == Emit(S, Ev("RemoveRecord", ref, rec,
                              IF ok THEN "NoError" ELSE "BadReference", ~Freed(S, ref)))
         IN [S1 EXCEPT !.recs = {r \in @ : ~(r.rec = rec /\ r.conn = ref)}]

(***************************************************************************)
(* Registration entities: teardown.                                        *)
(***************************************************************************)
IsCompleted(reg) == reg.mCallback = <<>>

\* Registration::~Registration -> TriggerCompleteCallback(OTBR_ERROR_ABORTED)
TriggerCompleteCallback(S, aCallback, aError) ==
    IF aCallback # <<>> THEN InvokeCallback(S, aCallback, aError) ELSE S

DestroyServiceRegistration(S, reg) ==
    LET S1 == IF reg.mServiceRef # 0 THEN DNSServiceRefDeallocate(S, reg.mServiceRef) ELSE S
    IN TriggerCompleteCallback(S1, reg.mCallback, "ABORTED")

RECURSIVE RemoveHostRecords(_, _, _, _)
RemoveHostRecords(S, reg, recordRefMap, updResult) ==
    IF recordRefMap = <<>> THEN S
    ELSE LET recordRef == Head(recordRefMap).rec
             S1 == IF IsCompleted(reg)
                   THEN DNSServiceUpdateRecord(S, reg.mServiceRef, recordRef, updResult)
                   ELSE S
             S2 == DNSServiceRemoveRecord(S1, reg.mServiceRef, recordRef)
         IN RemoveHostRecords(S2, reg, Tail(recordRefMap), updResult)

DestroyHostRegistration(S, reg, updResult) ==
    LET S1 == IF reg.mServiceRef # 0
              THEN RemoveHostRecords(S, reg, reg.mRecordRefMap, updResult)
              ELSE S
    IN TriggerCompleteCallback(S1, reg.mCallback, "ABORTED")

DestroyKeyRegistration(S, reg, updResult) ==
    LET S1 == IF reg.mServiceRef # 0 /\ IsCompleted(reg)
              THEN DNSServiceUpdateRecord(S, reg.mServiceRef, reg.mRecordRef, updResult)
              ELSE S
        S2 == IF reg.mServiceRef # 0
              THEN DNSServiceRemoveRecord(S1, reg.mServiceRef, reg.mRecordRef)
              ELSE S1
    IN TriggerCompleteCallback(S2, reg.mCallback, "ABORTED")

RECURSIVE DestroyServiceMap(_, _)
DestroyServiceMap(S, m) ==
    IF m = <<>> THEN S ELSE DestroyServiceMap(DestroyServiceRegistration(S, Head(m)), Tail(m))

RECURSIVE DestroyHostMap(_, _, _)
DestroyHostMap(S, m, updResult) ==
    IF m = <<>> THEN S
    ELSE DestroyHostMap(DestroyHostRegistration(S, Head(m), updResult), Tail(m), updResult)

RECURSIVE DestroyKeyMap(_, _, _)
DestroyKeyMap(S, m, updResult) ==
    IF m = <<>> THEN S
    ELSE DestroyKeyMap(DestroyKeyRegistration(S, Head(m), updResult), Tail(m), updResult)

(***************************************************************************)
(* Registration maps (Publisher base class).                               *)
(***************************************************************************)
\* std::map::emplace: no insertion when the key is present, and the
\* registration handed in is destroyed.
AddServiceRegistration(S, reg) ==
    IF MapFind(S.svc, reg.key) # 0 THEN DestroyServiceRegistration(S, reg)
    ELSE Emit([S EXCEPT !.svc = InsertAt(@, MapSlot(@, reg.key), reg)],
              Ev("store", reg.mServiceRef, 0, reg.key, TRUE))

AddHostRegistration(S, reg, updResult) ==
    IF MapFind(S.host, reg.key) # 0 THEN DestroyHostRegistration(S, reg, updResult)
    ELSE Emit([S EXCEPT !.host = InsertAt(@, MapSlot(@, reg.key), reg)],
              Ev("store", reg.mServiceRef, 0, reg.key, TRUE))

AddKeyRegistration(S, reg, updResult) ==
    IF MapFind(S.key, reg.key) # 0 THEN DestroyKeyRegistration(S, reg, updResult)
    ELSE Emit([S EXCEPT !.key = InsertAt(@, MapSlot(@, reg.key), reg)],
              Ev("store", reg.mServiceRef, 0, reg.key, TRUE))

\* erase the entry, Complete(aError), then destroy the registration
RemoveServiceRegistration(S, aName, aType, aError) ==
    LET i == MapFind(S.svc, MakeFullServiceName(aName, aType))
    IN IF i = 0 THEN S
       ELSE LET reg == S.svc[i]
                S1 == [S EXCEPT !.svc = RemoveAt(@, i)]
                S2 == TriggerCompleteCallback(S1, reg.mCallback, aError)
            IN DestroyServiceRegistration(S2, [reg EXCEPT !.mCallback = <<>>])

RemoveHostRegistration(S, aName, aError, updResult) ==
    LET i == MapFind(S.host, MakeFullHostName(aName))
    IN IF i = 0 THEN S
       ELSE LET reg == S.host[i]
                S1 == [S EXCEPT !.host = RemoveAt(@, i)]
                S2 == TriggerCompleteCallback(S1, reg.mCallback, aError)
            IN DestroyHostRegistration(S2, [reg EXCEPT !.mCallback = <<>>], updResult)

RemoveKeyRegistration(S, aName, aError, updResult) ==
    LET i == MapFind(S.key, MakeFullKeyName(aName))
    IN IF i = 0 THEN S
       ELSE LET reg == S.key[i]
                S1 == [S EXCEPT !.key = RemoveAt(@, i)]
                S2 == TriggerCompleteCallback(S1, reg.mCallback, aError)
            IN DestroyKeyRegistration(S2, [reg EXCEPT !.mCallback = <<>>], updResult)

\* The three outcomes of duplicate resolution: the existing registration is
\* outdated and removed (the new callback is handed back), it is completed
\* with the same parameters (the new callback is invoked with success), or
\* it is in flight with the same parameters (the new callback joins the
\* stored one).  R.cb is the callback handed back, <<>> when consumed.
HandleDuplicateServiceRegistration(S, aName, aType, aParams, aCallback) ==
    LET i == MapFind(S.svc, MakeFullServiceName(aName, aType))
    IN IF i = 0 THEN [s |-> S, cb |-> aCallback]
       ELSE IF S.svc[i].mName # aName \/ S.svc[i].mType # aType \/ S.svc[i].mParams # aParams
       THEN [s |-> RemoveServiceRegistration(S, aName, aType, "ABORTED"), cb |-> aCallback]
       ELSE IF IsCompleted(S.svc[i])
       THEN [s |-> InvokeCallback(S, aCallback, "NONE"), cb |-> <<>>]
       ELSE [s |-> [S EXCEPT !.svc[i].mCallback = @ \o aCallback], cb |-> <<>>]

\* the stored registration erased without completing it
HandleDuplicateHostRegistrationDrop(S, aName, aAddresses, aCallback, updResult) ==
    LET i == MapFind(S.host, MakeFullHostName(aName))
    IN IF i = 0 THEN [s |-> S, cb |-> aCallback]
       ELSE [s |-> [S EXCEPT !.host = RemoveAt(@, i)], cb |-> aCallback]

HandleDuplicateHostRegistration(S, aName, aAddresses, aCallback, updResult) ==
    LET i == MapFind(S.host, MakeFullHostName(aName))
    IN IF i = 0 THEN [s |-> S, cb |-> aCallback]
       ELSE IF S.host[i].mName # aName \/ S.host[i].mAddresses # aAddresses
       THEN [s |-> RemoveHostRegistration(S, aName, "ABORTED", updResult), cb |-> aCallback]
       ELSE IF IsCompleted(S.host[i])
       THEN [s |-> InvokeCallback(S, aCallback, "NONE"), cb |-> <<>>]
       ELSE [s |-> [S EXCEPT !.host[i].mCallback = @ \o aCallback], cb |-> <<>>]

HandleDuplicateKeyRegistration(S, aName, aKeyData, aCallback, updResult) ==
    LET i == MapFind(S.key, MakeFullKeyName(aName))
    IN IF i = 0 THEN [s |-> S, cb |-> aCallback]
       ELSE IF S.key[i].mName # aName \/ S.key[i].mKeyData # aKeyData
       THEN [s |-> RemoveKeyRegistration(S, aName, "ABORTED", updResult), cb |-> aCallback]
       ELSE IF IsCompleted(S.key[i])
       THEN [s |-> InvokeCallback(S, aCallback, "NONE"), cb |-> <<>>]
       ELSE [s |-> [S EXCEPT !.key[i].mCallback = @ \o aCallback], cb |-> <<>>]

(***************************************************************************)
(* Daemon client calls that hand out handles.  env holds the daemon's      *)
(* decisions for one handler: env.connFails (DNSServiceCreateConnection    *)
(* fails), env.failAt (the register call, counted from 1, that fails; 0 =  *)
(* none), env.err (the error code of a failing call), env.keepRef (a       *)
(* failing DNSServiceRegister leaves the caller's reference as passed in   *)
(* rather than clearing it), env.updResult (result of the TTL updates) and *)
(* env.abort (a use of a freed handle terminates the process).             *)
(***************************************************************************)
NoFailure == [connFails |-> FALSE, failAt |-> 0, err |-> "BadParam", keepRef |-> FALSE,
              updResult |-> "NoError", abort |-> FALSE, unsub |-> "none"]

ConnFailures == {[NoFailure EXCEPT !.connFails = TRUE, !.err = e] : e \in SyncErrors}
RegisterFailures(k) == {[NoFailure EXCEPT !.failAt = k, !.err = e] : e \in SyncErrors}
KeepRef(envs) == {[e EXCEPT !.keepRef = TRUE] : e \in envs}
UpdateFailures(envs) == {[e EXCEPT !.updResult = "Unknown"] : e \in envs}
Aborting(envs) == {[e EXCEPT !.abort = TRUE] : e \in envs}

ServiceEnvs == {NoFailure} \cup ConnFailures \cup RegisterFailures(1) \cup KeepRef(RegisterFailures(1))
HostEnvs == {NoFailure} \cup ConnFailures \cup RegisterFailures(1) \cup RegisterFailures(2)
KeyEnvs == {NoFailure} \cup ConnFailures \cup RegisterFailures(1)
SubscribeEnvs == {NoFailure} \cup RegisterFailures(1)
\* what the consumer does inside a notification, with either outcome of a
\* use of freed memory
ConsumerEnvs ==
    {[NoFailure EXCEPT !.unsub = u, !.abort = a] :
        u \in {"none", "service", "host"}, a \in BOOLEAN}

\* DNSServiceCreateConnection(&mHostsAndKeysRef)
DNSServiceCreateConnection(S, env) ==
    LET err == IF env.connFails THEN env.err
               ELSE IF FreeRefs(S) = {} THEN "NoMemory" ELSE "NoError"
        ref == IF err = "NoError" THEN Min(FreeRefs(S)) ELSE 0
        S1 == Emit(S, Ev("CreateConnection", ref, 0, err, TRUE))
    IN IF err = "NoError"
       THEN [s |-> [AllocRef(S1, ref, 0, "") EXCEPT !.hk = ref], err |-> err]
       ELSE [s |-> S1, err |-> err]

AllocateHostsAndKeysRefIfUnallocated(S, env) ==
    IF S.hk # 0 THEN [s |-> S, err |-> "NoError"]
    ELSE DNSServiceCreateConnection(S, env)

\* DNSServiceRegister(&serviceRef, ...ShareConnection...): on success
\* serviceRef names a new operation sharing the connection; on failure it is
\* cleared or left as passed in.  A call on a freed connection fails its
\* validity check and leaves serviceRef as passed in.
DNSServiceRegister(S, serviceRef, aName, env) ==
    LET err == IF Freed(S, serviceRef) THEN "BadReference"
               ELSE IF env.failAt = 1 THEN env.err
               ELSE IF FreeRefs(S) = {} THEN "NoMemory" ELSE "NoError"
        S1 == IF Freed(S, serviceRef) /\ S.abort THEN UseAfterFree(S, serviceRef)
              ELSE Emit(S, Ev("Register", serviceRef, 0, err, ~Freed(S, serviceRef)))
    IN IF err = "NoError"
       THEN LET ref == Min(FreeRefs(S))
            IN [s |-> AllocRef(S1, ref, serviceRef, IF aName = "" THEN DefaultName ELSE aName),
                err |-> err, ref |-> ref]
       ELSE [s |-> S1, err |-> err,
             ref |-> IF env.keepRef \/ Freed(S, serviceRef) THEN serviceRef ELSE 0]

\* DNSServiceRegisterRecord(ref, &recordRef, ...) / DNSServiceAddRecord(ref, &recordRef, ...);
\* k is the position of the call among the handler's register calls.
DNSServiceRegisterRecord(S, ref, kind, k, env) ==
    LET err == IF Freed(S, ref) THEN "BadReference"
               ELSE IF env.failAt = k THEN env.err
               ELSE IF FreeRecs(S) = {} THEN "NoMemory" ELSE "NoError"
        rec == IF err = "NoError" THEN Min(FreeRecs(S)) ELSE 0
        S1 == IF Freed(S, ref) /\ S.abort THEN UseAfterFree(S, ref)
              ELSE Emit(S, Ev(IF kind = "added" THEN "AddRecord" ELSE "RegisterRecord",
                              ref, rec, err, ~Freed(S, ref)))
    IN IF err = "NoError"
       THEN [s |-> AllocRec(S1, rec, ref, kind), err |-> err, rec |-> rec]
       ELSE [s |-> S1, err |-> err, rec |-> 0]

(***************************************************************************)
(* Publish / unpublish of services.  S.ret is the handler's return value.  *)
(***************************************************************************)
Return(S, ret) == [S EXCEPT !.ret = ret]

\* everything after VerifyOrExit(mState == State::kReady, ...)
PublishServiceWhenReady(S, aName, aType, aParams, aCallback, env) ==
    LET D == HandleDuplicateServiceRegistration(S, aName, aType, aParams, aCallback)
    IN IF D.cb = <<>> THEN Return(D.s, "NONE")
       ELSE
       LET A == AllocateHostsAndKeysRefIfUnallocated(D.s, env)
       IN IF A.err # "NoError"
          THEN Return(InvokeCallback(A.s, D.cb, DNSErrorToOtbrError(A.err)),
                      DNSErrorToOtbrError(A.err))
          ELSE
          LET R == DNSServiceRegister(A.s, A.s.hk, aName, env)
          IN IF R.err # "NoError"
             THEN LET S1 == IF R.ref # 0 THEN DNSServiceRefDeallocate(R.s, R.ref) ELSE R.s
                  IN Return(InvokeCallback(S1, D.cb, DNSErrorToOtbrError(R.err)),
                            DNSErrorToOtbrError(R.err))
             ELSE Return(AddServiceRegistration(R.s,
                             [key |-> MakeFullServiceName(aName, aType), mName |-> aName,
                              mType |-> aType, mParams |-> aParams, mCallback |-> D.cb,
                              mServiceRef |-> R.ref]),
                         "NONE")

PublishServiceImpl(S, aName, aType, aParams, aCallback, env) ==
    IF S.state # kReady
    THEN Return(InvokeCallback(S, aCallback, "INVALID_STATE"), "INVALID_STATE")
    ELSE PublishServiceWhenReady(S, aName, aType, aParams, aCallback, env)

UnpublishService(S, aName, aType, aCallback) ==
    IF S.state # kReady
    THEN InvokeCallback(S, aCallback, "INVALID_STATE")
    ELSE InvokeCallback(RemoveServiceRegistration(S, aName, aType, "ABORTED"), aCallback, "NONE")

(***************************************************************************)
(* Publish / unpublish of hosts.                                           *)
(***************************************************************************)
\* The loop over aAddresses: R.err is the first failure, R.map the record
\* references registered before it.
RECURSIVE RegisterHostRecords(_, _, _, _, _)
RegisterHostRecords(S, aAddresses, k, recordRefMap, env) ==
    IF k > Len(aAddresses) THEN [s |-> S, err |-> "NoError", map |-> recordRefMap]
    ELSE LET R == DNSServiceRegisterRecord(S, S.hk, "host", k, env)
         IN IF R.err # "NoError" THEN [s |-> R.s, err |-> R.err, map |-> recordRefMap]
            ELSE RegisterHostRecords(R.s, aAddresses, k + 1,
                     Append(recordRefMap, [rec |-> R.rec, addr |-> aAddresses[k]]), env)

\* everything after VerifyOrExit(mState == State::kReady, ...)
PublishHostWhenReady(S, aName, aAddresses, aCallback, env) ==
    LET D == HandleDuplicateHostRegistration(S, aName, aAddresses, aCallback, env.updResult)
    IN IF D.cb = <<>> THEN Return(D.s, "NONE")
       ELSE IF aAddresses = <<>> THEN Return(InvokeCallback(D.s, D.cb, "NONE"), "NONE")
       ELSE
       LET A == AllocateHostsAndKeysRefIfUnallocated(D.s, env)
       IN IF A.err # "NoError"
          THEN Return(InvokeCallback(A.s, D.cb, DNSErrorToOtbrError(A.err)),
                      DNSErrorToOtbrError(A.err))
          ELSE
          \* new DnssdHostRegistration(..., std::move(aCallback), ...): the
          \* callback now lives in the registration, aCallback is left null
          LET moved == <<>>
              R == RegisterHostRecords(A.s, aAddresses, 1, <<>>, env)
          IN IF R.err # "NoError"
             THEN \* the registration is neither stored nor deleted
                  Return(InvokeOrTerminate(R.s, moved, DNSErrorToOtbrError(R.err)),
                         DNSErrorToOtbrError(R.err))
             ELSE Return(AddHostRegistration(R.s,
                             [key |-> MakeFullHostName(aName), mName |-> aName,
                              mAddresses |-> aAddresses, mCallback |-> D.cb,
                              mServiceRef |-> R.s.hk, mRecordRefMap |-> R.map,
                              mCallbackCount |-> Len(aAddresses)], env.updResult),
                         "NONE")

PublishHostImpl(S, aName, aAddresses, aCallback, env) ==
    IF S.state # kReady
    THEN Return(InvokeCallback(S, aCallback, "INVALID_STATE"), "INVALID_STATE")
    ELSE PublishHostWhenReady(S, aName, aAddresses, aCallback, env)

\* an unknown host reported as not found
UnpublishHostStrict(S, aName, aCallback, env) ==
    IF S.state # kReady
    THEN InvokeCallback(S, aCallback, "INVALID_STATE")
    ELSE IF MapFind(S.host, MakeFullHostName(aName)) = 0
    THEN InvokeCallback(S, aCallback, "NOT_FOUND")
    ELSE InvokeCallback(RemoveHostRegistration(S, aName, "ABORTED", env.updResult),
                        aCallback, "NONE")

UnpublishHost(S, aName, aCallback, env) ==
    IF S.state # kReady
    THEN InvokeCallback(S, aCallback, "INVALID_STATE")
    ELSE InvokeCallback(RemoveHostRegistration(S, aName, "ABORTED", env.updResult),
                        aCallback, "NONE")

(***************************************************************************)
(* Publish / unpublish of keys.                                            *)
(***************************************************************************)
\* everything after VerifyOrExit(mState == State::kReady, ...)
PublishKeyWhenReady(S, aName, aKeyData, aCallback, env) ==
    LET D == HandleDuplicateKeyRegistration(S, aName, aKeyData, aCallback, env.updResult)
    IN IF D.cb = <<>> THEN Return(D.s, "NONE")
       ELSE
       LET A == AllocateHostsAndKeysRefIfUnallocated(D.s, env)
       IN IF A.err # "NoError"
          THEN Return(InvokeCallback(A.s, D.cb, DNSErrorToOtbrError(A.err)),
                      DNSErrorToOtbrError(A.err))
          ELSE
          LET i == MapFind(A.s.svc, MakeFullKeyName(aName))
              R == IF i # 0
                   THEN DNSServiceRegisterRecord(A.s, A.s.svc[i].mServiceRef, "added", 1, env)
                   ELSE DNSServiceRegisterRecord(A.s, A.s.hk, "key", 1, env)
          IN IF R.err # "NoError"
             THEN Return(InvokeCallback(R.s, D.cb, DNSErrorToOtbrError(R.err)),
                         DNSErrorToOtbrError(R.err))
             ELSE Return(AddKeyRegistration(R.s,
                             [key |-> MakeFullKeyName(aName), mName |-> aName,
                              mKeyData |-> aKeyData, mCallback |-> D.cb,
                              mServiceRef |-> R.s.hk, mRecordRef |-> R.rec], env.updResult),
                         "NONE")

\* the state test left out
PublishKeyImplUngated(S, aName, aKeyData, aCallback, env) ==
    PublishKeyWhenReady(S, aName, aKeyData, aCallback, env)

PublishKeyImpl(S, aName, aKeyData, aCallback, env) ==
    IF S.state # kReady
    THEN Return(InvokeCallback(S, aCallback, "INVALID_STATE"), "INVALID_STATE")
    ELSE PublishKeyWhenReady(S, aName, aKeyData, aCallback, env)

UnpublishKey(S, aName, aCallback, env) ==
    IF S.state # kReady
    THEN InvokeCallback(S, aCallback, "INVALID_STATE")
    ELSE InvokeCallback(RemoveKeyRegistration(S, aName, "ABORTED", env.updResult),
                        aCallback, "NONE")

(***************************************************************************)
(* Subscriptions: creation and destruction.                                *)
(***************************************************************************)
SubscribeTypes == {"_t"}
InstanceNames == {"", "i"}
SubscribeHostNames == {"h"}

\* An Ip6Address is <<g0, g1, g7>>: its first, second and last 16-bit group
\* (the groups between are zero): ::, ::1, fe80::1, ff02::1, 2001:db8::1.
Ip6Addresses == {<<0, 0, 0>>, <<0, 0, 1>>, <<65152, 0, 1>>, <<65282, 0, 1>>, <<8193, 3512, 1>>}
IsUnspecified(a) == a = <<0, 0, 0>>
IsLoopback(a) == a = <<0, 0, 1>>
\* fe80::/10
IsLinkLocal(a) == a[1] \div 64 = 1018
\* ff00::/8
IsMulticast(a) == a[1] \div 256 = 255

\* DiscoveredInstanceInfo / DiscoveredHostInfo as first constructed
NoInfo == [mNetifIndex |-> 0, mName |-> "", mHostName |-> "", mAddresses |-> <<>>]

\* DNSServiceBrowse / DNSServiceResolve / DNSServiceGetAddrInfo on a null
\* reference: a connection of its own, remembered with the operation it runs;
\* the result code is not looked at by Browse, Resolve and
\* HostSubscription::Resolve.
DNSServiceStartOperation(S, what, env) ==
    LET err == IF env.failAt = 1 THEN env.err
               ELSE IF FreeRefs(S) = {} THEN "NoMemory" ELSE "NoError"
        ref == IF err = "NoError" THEN Min(FreeRefs(S)) ELSE 0
        S1 == Emit(S, Ev(what, ref, 0, err, TRUE))
    IN [s |-> IF err = "NoError" THEN AllocRef(S1, ref, 0, what) ELSE S1, err |-> err, ref |-> ref]

\* ServiceRef::Release / DeallocateServiceRef
ReleaseRef(S, ref) == IF ref # 0 THEN DNSServiceRefDeallocate(S, ref) ELSE S

RECURSIVE DestroyInstanceResolutions(_, _)
DestroyInstanceResolutions(S, children) ==
    IF children = <<>> THEN S
    ELSE DestroyInstanceResolutions(ReleaseRef(S, Head(children).mServiceRef), Tail(children))

DestroyServiceSubscription(S, sub) ==
    ReleaseRef(DestroyInstanceResolutions(S, sub.mResolvingInstances), sub.mServiceRef)

RECURSIVE DestroyServiceSubscriptions(_, _)
DestroyServiceSubscriptions(S, subs) ==
    IF subs = <<>> THEN S
    ELSE DestroyServiceSubscriptions(DestroyServiceSubscription(S, Head(subs)), Tail(subs))

RECURSIVE DestroyHostSubscriptions(_, _)
DestroyHostSubscriptions(S, subs) ==
    IF subs = <<>> THEN S
    ELSE DestroyHostSubscriptions(ReleaseRef(S, Head(subs).mServiceRef), Tail(subs))

\* ServiceSubscription::Browse of subscription i
Browse(S, i) ==
    LET R == DNSServiceStartOperation(S, "Browse", S.env)
    IN [R.s EXCEPT !.ssub[i].mServiceRef = R.ref]

\* ServiceSubscription::Resolve of subscription i: a new child at the end of
\* mResolvingInstances, then ServiceInstanceResolution::Resolve on it.
ServiceSubscriptionResolve(S, i, aInterfaceIndex, aInstanceName, aType, aDomain) ==
    LET R == DNSServiceStartOperation(S, "Resolve", S.env)
    IN [R.s EXCEPT !.ssub[i].mResolvingInstances =
            Append(@, [mInstanceName |-> aInstanceName, mType |-> aType,
                       mDomain |-> aDomain, mNetifIndex |-> aInterfaceIndex,
                       mServiceRef |-> R.ref, mInstanceInfo |-> NoInfo])]

\* HostSubscription::Resolve of host subscription h
HostSubscriptionResolve(S, h) ==
    LET R == DNSServiceStartOperation(S, "GetAddrInfo", S.env)
    IN [R.s EXCEPT !.hsub[h].mServiceRef = R.ref]

\* every subscription browses, whatever its instance name
SubscribeServiceBrowsing(S, aType, aInstanceName) ==
    IF S.state # kReady THEN S
    ELSE LET S1 == [S EXCEPT !.ssub = Append(@, [mType |-> aType, mInstanceName |-> "",
                                                 mServiceRef |-> 0,
                                                 mResolvingInstances |-> <<>>])]
         IN Browse(S1, Len(S1.ssub))

SubscribeService(S, aType, aInstanceName) ==
    IF S.state # kReady THEN S
    ELSE LET S1 == [S EXCEPT !.ssub = Append(@, [mType |-> aType,
                                                 mInstanceName |-> aInstanceName,
                                                 mServiceRef |-> 0,
                                                 mResolvingInstances |-> <<>>])]
         IN IF aInstanceName = ""
            THEN Browse(S1, Len(S1.ssub))
            ELSE \* kDNSServiceInterfaceIndexAny = 0
                 ServiceSubscriptionResolve(S1, Len(S1.ssub), 0, aInstanceName, aType, kDomain)

ServiceSubscriptionIndex(S, aType, aInstanceName) ==
    LET hits == {i \in 1..Len(S.ssub) : S.ssub[i].mType = aType
                                        /\ S.ssub[i].mInstanceName = aInstanceName}
    IN IF hits = {} THEN 0 ELSE Min(hits)

\* assert(it != end()) fails when nothing matches: the process aborts.
UnsubscribeService(S, aType, aInstanceName) ==
    IF S.state # kReady THEN S
    ELSE LET i == ServiceSubscriptionIndex(S, aType, aInstanceName)
         IN IF i = 0
            THEN Terminate(S, 0, "assert")
            ELSE DestroyServiceSubscription([S EXCEPT !.ssub = RemoveAt(@, i)], S.ssub[i])

\* the state check left out
SubscribeHostUngated(S, aHostName) ==
    LET S1 == [S EXCEPT !.hsub = Append(@, [mHostName |-> aHostName, mServiceRef |-> 0,
                                            mHostInfo |-> NoInfo])]
    IN HostSubscriptionResolve(S1, Len(S1.hsub))

SubscribeHost(S, aHostName) ==
    IF S.state # kReady THEN S
    ELSE LET S1 == [S EXCEPT !.hsub = Append(@, [mHostName |-> aHostName, mServiceRef |-> 0,
                                                 mHostInfo |-> NoInfo])]
         IN HostSubscriptionResolve(S1, Len(S1.hsub))

HostSubscriptionIndex(S, aHostName) ==
    LET hits == {i \in 1..Len(S.hsub) : S.hsub[i].mHostName = aHostName}
    IN IF hits = {} THEN 0 ELSE Min(hits)

UnsubscribeHost(S, aHostName) ==
    IF S.state # kReady THEN S
    ELSE LET i == HostSubscriptionIndex(S, aHostName)
         IN IF i = 0
            THEN Terminate(S, 0, "assert")
            ELSE ReleaseRef([S EXCEPT !.hsub = RemoveAt(@, i)], S.hsub[i].mServiceRef)

(***************************************************************************)
(* Notifications of the consumer.  The base class hands a notification to  *)
(* the consumer's discovery callbacks, which run inside it and may         *)
(* unsubscribe: S.env.unsub says whether the consumer then drops its first *)
(* service subscription ("service"), its first host subscription ("host")  *)
(* or nothing ("none").                                                    *)
(***************************************************************************)
Note(ev, type, name, info, err) ==
    [ev |-> ev, id |-> 0, rec |-> 0, err |-> err, ok |-> TRUE,
     type |-> type, name |-> name, info |-> info]

Consumer(S) ==
    IF S.crashed \/ S.state # kReady THEN S
    ELSE IF S.env.unsub = "service" /\ S.ssub # <<>>
    THEN UnsubscribeService(S, S.ssub[1].mType, S.ssub[1].mInstanceName)
    ELSE IF S.env.unsub = "host" /\ S.hsub # <<>>
    THEN UnsubscribeHost(S, S.hsub[1].mHostName)
    ELSE S

OnServiceResolved(S, aType, aInstanceInfo) ==
    Consumer(Emit(S, Note("OnServiceResolved", aType, aInstanceInfo.mName, aInstanceInfo,
                          "NoError")))
OnServiceResolveFailed(S, aType, aInstanceName, aErrorCode) ==
    Consumer(Emit(S, Note("OnServiceResolveFailed", aType, aInstanceName, NoInfo,
                          aErrorCode)))
OnServiceRemoved(S, aNetifIndex, aType, aInstanceName) ==
    Consumer(Emit(S, Note("OnServiceRemoved", aType, aInstanceName,
                          [NoInfo EXCEPT !.mNetifIndex = aNetifIndex, !.mName = aInstanceName],
                          "NoError")))
OnHostResolved(S, aHostName, aHostInfo) ==
    Consumer(Emit(S, Note("OnHostResolved", "", aHostName, aHostInfo, "NoError")))
OnHostResolveFailed(S, aHostName, aErrorCode) ==
    Consumer(Emit(S, Note("OnHostResolveFailed", "", aHostName, NoInfo, aErrorCode)))

(***************************************************************************)
(* Discovery replies.  A reply handler gets the object its operation was   *)
(* started by (aContext): subscription i, resolution child j of            *)
(* subscription i, or host subscription h.                                 *)
(***************************************************************************)
BrowseContext(S, ref) ==
    LET hits == {i \in 1..Len(S.ssub) : S.ssub[i].mServiceRef = ref}
    IN IF hits = {} THEN 0 ELSE Min(hits)

ResolutionContext(S, ref) ==
    LET hits == UNION {{<<i, j>> : j \in {k \in 1..Len(S.ssub[i].mResolvingInstances) :
                                             S.ssub[i].mResolvingInstances[k].mServiceRef = ref}}
                       : i \in 1..Len(S.ssub)}
    IN IF hits = {} THEN <<0, 0>> ELSE CHOOSE p \in hits : \A q \in hits : p[1] <= q[1] /\ (p[1] = q[1] => p[2] <= q[2])

HostContext(S, ref) ==
    LET hits == {h \in 1..Len(S.hsub) : S.hsub[h].mServiceRef = ref}
    IN IF hits = {} THEN 0 ELSE Min(hits)

\* A full service instance name is the sequence of its parts; it splits
\* into instance name, type and domain when it has these three.
SplitFullServiceInstanceName(aFullName) ==
    IF Len(aFullName) = 3
    THEN [error |-> "NONE", instanceName |-> aFullName[1], type |-> aFullName[2],
          domain |-> aFullName[3]]
    ELSE [error |-> "INVALID_ARGS", instanceName |-> "", type |-> "", domain |-> ""]

\* erasing the child destroys it, which releases its handle
RemoveInstanceResolution(S, i, j) ==
    IF j = 0 THEN Terminate(S, 0, "assert")
    ELSE LET child == S.ssub[i].mResolvingInstances[j]
             S1 == Emit([S EXCEPT !.ssub[i].mResolvingInstances = RemoveAt(@, j)],
                        Ev("RemoveInstanceResolution", child.mServiceRef, 0,
                           child.mInstanceName, TRUE))
         IN ReleaseRef(S1, child.mServiceRef)

FinishResolution(S, i, j) ==
    LET serviceName == S.ssub[i].mType
        instanceInfo == S.ssub[i].mResolvingInstances[j].mInstanceInfo
    IN OnServiceResolved(RemoveInstanceResolution(S, i, j), serviceName, instanceInfo)

GetAddrInfo(S, i, j) ==
    LET R == DNSServiceStartOperation(S, "GetAddrInfo", S.env)
    IN [s |-> [R.s EXCEPT !.ssub[i].mResolvingInstances[j].mServiceRef = R.ref],
        error |-> IF R.err = "NoError" THEN "NONE" ELSE "MDNS"]

HandleResolveResult(S, i, j, aInterfaceIndex, aErrorCode, aFullName, aHostTarget) ==
    LET child == S.ssub[i].mResolvingInstances[j]
        split == SplitFullServiceInstanceName(aFullName)
        \* FinishResolution() runs on this child after the notification: when
        \* the consumer destroyed the parent, and the child with it, it reads
        \* freed memory and the parent no longer finds the child
        Failed(T) ==
            LET T1 == OnServiceResolveFailed(T, T.ssub[i].mType, child.mInstanceName,
                                             aErrorCode)
                this == i - (Len(T.ssub) - Len(T1.ssub))
            IN IF this = 0
               THEN IF T1.abort THEN UseAfterFree(T1, 0) ELSE RemoveInstanceResolution(T1, 0, 0)
               ELSE FinishResolution(T1, this, j)
    IN IF aErrorCode # "NoError" THEN Failed(S)
       ELSE IF split.error # "NONE" THEN Failed(S)
       ELSE LET S1 == [S EXCEPT !.ssub[i].mResolvingInstances[j].mInstanceInfo =
                           [@ EXCEPT !.mNetifIndex = aInterfaceIndex,
                                     !.mName = split.instanceName,
                                     !.mHostName = aHostTarget]]
                S2 == [ReleaseRef(S1, child.mServiceRef)
                          EXCEPT !.ssub[i].mResolvingInstances[j].mServiceRef = 0]
                G == GetAddrInfo(S2, i, j)
            IN IF G.error # "NONE" THEN Failed(G.s) ELSE G.s

\* the filter of the host subscription (link-local only) used for instances
HandleGetAddrInfoResultLinkLocalOnly(S, i, j, aAdd, aErrorCode, aFamily, aAddress) ==
    LET accepted == /\ aErrorCode = "NoError"
                    /\ aAdd /\ aFamily = "AF_INET6"
                    /\ ~IsLinkLocal(aAddress)
        S1 == IF accepted
              THEN [S EXCEPT !.ssub[i].mResolvingInstances[j].mInstanceInfo.mAddresses =
                                 Append(@, aAddress)]
              ELSE S
    IN IF S1.ssub[i].mResolvingInstances[j].mInstanceInfo.mAddresses # <<>>
          \/ aErrorCode # "NoError"
       THEN FinishResolution(S1, i, j)
       ELSE S1

\* the resolution finished by every address reply, accepted or not
HandleGetAddrInfoResultFinishAlways(S, i, j, aAdd, aErrorCode, aFamily, aAddress) ==
    LET accepted == /\ aErrorCode = "NoError"
                    /\ aAdd /\ aFamily = "AF_INET6"
                    /\ ~IsUnspecified(aAddress) /\ ~IsLinkLocal(aAddress)
                    /\ ~IsMulticast(aAddress) /\ ~IsLoopback(aAddress)
        S1 == IF accepted
              THEN [S EXCEPT !.ssub[i].mResolvingInstances[j].mInstanceInfo.mAddresses =
                                 Append(@, aAddress)]
              ELSE S
    IN FinishResolution(S1, i, j)

HandleGetAddrInfoResult(S, i, j, aAdd, aErrorCode, aFamily, aAddress) ==
    LET accepted == /\ aErrorCode = "NoError"
                    /\ aAdd /\ aFamily = "AF_INET6"
                    /\ ~IsUnspecified(aAddress) /\ ~IsLinkLocal(aAddress)
                    /\ ~IsMulticast(aAddress) /\ ~IsLoopback(aAddress)
        S1 == IF accepted
              THEN [S EXCEPT !.ssub[i].mResolvingInstances[j].mInstanceInfo.mAddresses =
                                 Append(@, aAddress)]
              ELSE S
    IN IF S1.ssub[i].mResolvingInstances[j].mInstanceInfo.mAddresses # <<>>
          \/ aErrorCode # "NoError"
       THEN FinishResolution(S1, i, j)
       ELSE S1

\* the filter of the instance resolution used for hosts
HandleHostResolveResultStrict(S, h, aAdd, aErrorCode, aHostName, aFamily, aAddress) ==
    IF aErrorCode # "NoError" THEN OnHostResolveFailed(S, aHostName, aErrorCode)
    ELSE IF ~(aAdd /\ aFamily = "AF_INET6") THEN S
    ELSE IF IsUnspecified(aAddress) \/ IsLinkLocal(aAddress) \/ IsMulticast(aAddress)
            \/ IsLoopback(aAddress)
    THEN S
    ELSE LET S1 == [S EXCEPT !.hsub[h].mHostInfo =
                        [@ EXCEPT !.mHostName = aHostName,
                                  !.mAddresses = Append(@, aAddress)]]
         IN OnHostResolved(S1, S1.hsub[h].mHostName, S1.hsub[h].mHostInfo)

HandleHostResolveResult(S, h, aAdd, aErrorCode, aHostName, aFamily, aAddress) ==
    IF aErrorCode # "NoError" THEN OnHostResolveFailed(S, aHostName, aErrorCode)
    ELSE IF ~(aAdd /\ aFamily = "AF_INET6") THEN S
    ELSE IF IsLinkLocal(aAddress) THEN S
    ELSE LET S1 == [S EXCEPT !.hsub[h].mHostInfo =
                        [@ EXCEPT !.mHostName = aHostName,
                                  !.mAddresses = Append(@, aAddress)]]
         IN OnHostResolved(S1, S1.hsub[h].mHostName, S1.hsub[h].mHostInfo)

\* every error-free browse reply starts a resolution, add flag or not
HandleBrowseResultAlwaysResolve(S, i, aAdd, aInterfaceIndex, aErrorCode, aInstanceName) ==
    LET sub == S.ssub[i]
    IN IF aErrorCode # "NoError"
       THEN [ReleaseRef(OnServiceResolveFailed(S, sub.mType, sub.mInstanceName, aErrorCode),
                        sub.mServiceRef) EXCEPT !.ssub[i].mServiceRef = 0]
       ELSE ServiceSubscriptionResolve(S, i, aInterfaceIndex, aInstanceName, sub.mType, kDomain)

HandleBrowseResult(S, i, aAdd, aInterfaceIndex, aErrorCode, aInstanceName) ==
    LET sub == S.ssub[i]
    IN IF aErrorCode # "NoError"
       THEN \* Release() runs on this subscription after the notification: when
            \* the consumer destroyed it, Release reads freed memory (the
            \* destructor left mServiceRef null)
            LET S1 == OnServiceResolveFailed(S, sub.mType, sub.mInstanceName, aErrorCode)
                this == i - (Len(S.ssub) - Len(S1.ssub))
            IN IF this = 0
               THEN IF S1.abort THEN UseAfterFree(S1, 0)
                    ELSE Emit(S1, Ev("Release", 0, 0, "use-after-free", FALSE))
               ELSE [ReleaseRef(S1, sub.mServiceRef) EXCEPT !.ssub[this].mServiceRef = 0]
       ELSE IF aAdd
       THEN ServiceSubscriptionResolve(S, i, aInterfaceIndex, aInstanceName, sub.mType, kDomain)
       ELSE OnServiceRemoved(S, aInterfaceIndex, sub.mType, aInstanceName)

(***************************************************************************)
(* Publisher lifecycle.                                                    *)
(***************************************************************************)
\* the observer told of a change only: a Start in Ready stays silent
StartOnChange(S) ==
    IF S.state = kReady THEN Return(S, "NONE")
    ELSE Return(Emit([S EXCEPT !.state = kReady], Ev("state", 0, 0, kReady, TRUE)), "NONE")

Start(S) == Return(Emit([S EXCEPT !.state = kReady], Ev("state", 0, 0, kReady, TRUE)), "NONE")

\* The swapped-out maps are locals of Stop: they are destroyed when Stop
\* returns, in reverse order of declaration, after everything else Stop does.
StopWhenReady(S, updResult) ==
    LET serviceRegistrations == S.svc
        hostRegistrations == S.host
        keyRegistrations == S.key
        S1 == [S EXCEPT !.svc = <<>>, !.host = <<>>, !.key = <<>>]
        S2 == IF S1.hk # 0
              THEN [DNSServiceRefDeallocate(S1, S1.hk) EXCEPT !.hk = 0]
              ELSE S1
        S3 == DestroyServiceSubscriptions([S2 EXCEPT !.ssub = <<>>], S2.ssub)
        S4 == DestroyHostSubscriptions([S3 EXCEPT !.hsub = <<>>], S3.hsub)
        S5 == [S4 EXCEPT !.state = kIdle]
        S6 == DestroyKeyMap(S5, keyRegistrations, updResult)
        S7 == DestroyHostMap(S6, hostRegistrations, updResult)
    IN DestroyServiceMap(S7, serviceRegistrations)

\* the state observer notified after the exit label
StopNotifying(S, updResult) ==
    Emit(IF S.state # kReady THEN S ELSE StopWhenReady(S, updResult),
         Ev("state", 0, 0, kIdle, TRUE))

\* mHostsAndKeysRef = nullptr left out
StopKeepingHandle(S, updResult) ==
    IF S.state # kReady THEN S ELSE [StopWhenReady(S, updResult) EXCEPT !.hk = S.hk]

Stop(S, updResult) ==
    IF S.state # kReady THEN S ELSE StopWhenReady(S, updResult)

(***************************************************************************)
(* Asynchronous register replies.                                          *)
(***************************************************************************)
FindServiceRegistration(S, aServiceRef) ==
    LET hits == {i \in 1..Len(S.svc) : S.svc[i].mServiceRef = aServiceRef}
    IN IF hits = {} THEN 0 ELSE Min(hits)

FindHostRegistration(S, aServiceRef, aRecordRef) ==
    LET hits == {i \in 1..Len(S.host) :
                    /\ S.host[i].mServiceRef = aServiceRef
                    /\ \E j \in 1..Len(S.host[i].mRecordRefMap) :
                           S.host[i].mRecordRefMap[j].rec = aRecordRef}
    IN IF hits = {} THEN 0 ELSE Min(hits)

FindKeyRegistration(S, aServiceRef, aRecordRef) ==
    LET hits == {i \in 1..Len(S.key) : S.key[i].mServiceRef = aServiceRef
                                       /\ S.key[i].mRecordRef = aRecordRef}
    IN IF hits = {} THEN 0 ELSE Min(hits)

\* serviceReg->mName = aName runs before the null check: with no matching
\* registration it writes through a null pointer.
HandleServiceRegisterResult(S, aServiceRef, aAdd, aError, aName) ==
    LET i == FindServiceRegistration(S, aServiceRef)
    IN IF i = 0
       THEN Terminate(S, aServiceRef, "null")
       ELSE LET S1 == [S EXCEPT !.svc[i].mName = aName]
            IN IF aError = "NoError" /\ aAdd
               THEN InvokeCallback([S1 EXCEPT !.svc[i].mCallback = <<>>],
                                   S1.svc[i].mCallback, "NONE")
               ELSE RemoveServiceRegistration(S1, S1.svc[i].mName, S1.svc[i].mType,
                                              DNSErrorToOtbrError(aError))

\* completes on the first confirmation, whatever mCallbackCount says
HandleRegisterHostResultEager(S, aServiceRef, aRecordRef, aError, updResult) ==
    LET i == FindHostRegistration(S, aServiceRef, aRecordRef)
    IN IF i = 0 THEN S
       ELSE IF DNSErrorToOtbrError(aError) = "NONE"
       THEN InvokeCallback([S EXCEPT !.host[i].mCallbackCount = @ - 1,
                                     !.host[i].mCallback = <<>>],
                           S.host[i].mCallback, "NONE")
       ELSE RemoveHostRegistration(S, S.host[i].mName, DNSErrorToOtbrError(aError), updResult)

HandleRegisterHostResult(S, aServiceRef, aRecordRef, aError, updResult) ==
    LET i == FindHostRegistration(S, aServiceRef, aRecordRef)
    IN IF i = 0 THEN S
       ELSE IF DNSErrorToOtbrError(aError) = "NONE"
       THEN LET S1 == [S EXCEPT !.host[i].mCallbackCount = @ - 1]
            IN IF S1.host[i].mCallbackCount = 0
               THEN InvokeCallback([S1 EXCEPT !.host[i].mCallback = <<>>],
                                   S1.host[i].mCallback, "NONE")
               ELSE S1
       ELSE RemoveHostRegistration(S, S.host[i].mName, DNSErrorToOtbrError(aError), updResult)

HandleRegisterKeyResult(S, aServiceRef, aRecordRef, aError, updResult) ==
    LET i == FindKeyRegistration(S, aServiceRef, aRecordRef)
    IN IF i = 0 THEN S
       ELSE IF DNSErrorToOtbrError(aError) = "NONE"
       THEN InvokeCallback([S EXCEPT !.key[i].mCallback = <<>>], S.key[i].mCallback, "NONE")
       ELSE RemoveKeyRegistration(S, S.key[i].mName, DNSErrorToOtbrError(aError), updResult)

(***************************************************************************)
(* The daemon's replies.  A reply is [kind, id, err, add]: kind "svc" for  *)
(* a service registration (id = its DNSServiceRef), "rec" for a registered *)
(* record (id = its DNSRecordRef), "stale" for a service-register reply    *)
(* whose handle no registration holds.  A record is confirmed at most      *)
(* once; a failure can be reported at any time.                            *)
(***************************************************************************)
ReplyValid(S, conn, reply) ==
    IF reply.kind = "svc"
    THEN \E r \in S.live : r.ref = reply.id /\ r.parent = conn
    ELSE IF reply.kind = "rec"
    THEN \E r \in S.recs : /\ r.rec = reply.id /\ r.conn = conn /\ r.kind \in {"host", "key"}
                           /\ (reply.err = "NoError" => r.awaiting)
    ELSE IF reply.kind = "stale"
    THEN FindServiceRegistration(S, reply.id) = 0
    ELSE /\ reply.id = conn
         /\ \E r \in S.live : r.ref = conn /\ r.name = reply.kind
         /\ IF reply.kind = "Browse" THEN BrowseContext(S, conn) # 0
            ELSE IF reply.kind = "Resolve" THEN ResolutionContext(S, conn) # <<0, 0>>
            ELSE ResolutionContext(S, conn) # <<0, 0>> \/ HostContext(S, conn) # 0

Replies(S, conn) ==
    {reply \in [kind : {"svc"}, id : RefPool, err : ReplyErrors, add : BOOLEAN] :
        /\ ReplyValid(S, conn, reply)
        /\ (reply.err # "NoError" => ~reply.add)}
    \cup {reply \in [kind : {"rec"}, id : RecPool, err : ReplyErrors, add : {FALSE}] :
            ReplyValid(S, conn, reply)}

SeqsUpTo(set, n) == UNION {[1..k -> set] : k \in 0..n}

\* The daemon's discovery replies for the operation running on handle ref:
\* browse replies name instance "i" on interface 1; a resolve reply carries
\* the full name of the instance asked for or one that does not split; an
\* address reply carries an IPv6 address or is an IPv4 one.
DiscoveryErrors == {"NoError", "Timeout"}

DiscoveryReplies(S, ref) ==
    LET i == BrowseContext(S, ref)
        c == ResolutionContext(S, ref)
        h == HostContext(S, ref)
        what == {r.name : r \in {r \in S.live : r.ref = ref}}
        Reply(kind, err, add, name, fullName, family, address) ==
            [kind |-> kind, id |-> ref, err |-> err, add |-> add, netif |-> 1,
             name |-> name, fullName |-> fullName, family |-> family, address |-> address]
        AddressReplies(aHostName) ==
            {Reply("GetAddrInfo", "NoError", add, aHostName, <<>>, "AF_INET6", a) :
                add \in BOOLEAN, a \in Ip6Addresses}
            \cup {Reply("GetAddrInfo", "NoError", TRUE, aHostName, <<>>, "AF_INET", <<0, 0, 0>>),
                  Reply("GetAddrInfo", "Timeout", FALSE, aHostName, <<>>, "AF_INET6", <<0, 0, 0>>)}
    IN IF what = {"Browse"} /\ i # 0
       THEN {Reply("Browse", e, add, "i", <<>>, "AF_INET6", <<0, 0, 0>>) :
                e \in DiscoveryErrors,
                add \in {b \in BOOLEAN : b => Len(S.ssub[i].mResolvingInstances) < MaxChildren}}
       ELSE IF what = {"Resolve"} /\ c # <<0, 0>>
       THEN LET child == S.ssub[c[1]].mResolvingInstances[c[2]]
            IN {Reply("Resolve", e, FALSE, "h.local.", n, "AF_INET6", <<0, 0, 0>>) :
                   e \in DiscoveryErrors,
                   n \in {<<child.mInstanceName, child.mType, child.mDomain>>, <<"?">>}}
       ELSE IF what = {"GetAddrInfo"} /\ c # <<0, 0>>
       THEN AddressReplies(S.ssub[c[1]].mResolvingInstances[c[2]].mInstanceInfo.mHostName)
       ELSE IF what = {"GetAddrInfo"} /\ h # 0
               /\ Len(S.hsub[h].mHostInfo.mAddresses) < MaxAddresses
       THEN AddressReplies(MakeFullHostName(S.hsub[h].mHostName))
       ELSE {}

DeliverReply(S, conn, reply, updResult) ==
    IF reply.kind = "svc"
    THEN LET r == CHOOSE r \in S.live : r.ref = reply.id
         IN HandleServiceRegisterResult(S, reply.id, reply.add, reply.err, r.name)
    ELSE IF reply.kind = "rec"
    THEN LET r == CHOOSE r \in S.recs : r.rec = reply.id /\ r.conn = conn
             S1 == [S EXCEPT !.recs = (@ \ {r}) \cup {[r EXCEPT !.awaiting = FALSE]}]
         IN IF r.kind = "host"
            THEN HandleRegisterHostResult(S1, conn, reply.id, reply.err, updResult)
            ELSE HandleRegisterKeyResult(S1, conn, reply.id, reply.err, updResult)
    ELSE IF reply.kind = "stale"
    THEN HandleServiceRegisterResult(S, reply.id, reply.add, reply.err, DefaultName)
    ELSE IF reply.kind = "Browse"
    THEN HandleBrowseResult(S, BrowseContext(S, conn), reply.add, reply.netif, reply.err,
                            reply.name)
    ELSE LET c == ResolutionContext(S, conn)
         IN IF reply.kind = "Resolve"
            THEN HandleResolveResult(S, c[1], c[2], reply.netif, reply.err, reply.fullName,
                                     reply.name)
            ELSE IF c # <<0, 0>>
            THEN HandleGetAddrInfoResult(S, c[1], c[2], reply.add, reply.err, reply.family,
                                         reply.address)
            ELSE HandleHostResolveResult(S, HostContext(S, conn), reply.add, reply.err,
                                         reply.name, reply.family, reply.address)

RECURSIVE DeliverReplies(_, _, _, _)
DeliverReplies(S, conn, replies, updResult) ==
    IF replies = <<>> \/ S.crashed THEN S
    ELSE LET S1 == IF ReplyValid(S, conn, Head(replies))
                   THEN DeliverReply(S, conn, Head(replies), updResult)
                   ELSE S
         IN DeliverReplies(S1, conn, Tail(replies), updResult)

NoDispatch == [ref |-> 0, rc |-> "NoError", replies |-> <<>>]

\* DNSServiceProcessResult(ref): the replies are handed to their handlers
\* before the call returns S.ret, its result code.
DNSServiceProcessResult(S, ref, d, updResult) ==
    IF Freed(S, ref) /\ S.abort THEN UseAfterFree(S, ref)
    ELSE IF Freed(S, ref)
    THEN Return(Emit(S, Ev("ProcessResult", ref, 0, "BadReference", FALSE)), "BadReference")
    ELSE LET mine == IF d.ref = ref THEN d ELSE NoDispatch
             S1 == Emit(S, Ev("ProcessResult", ref, 0, mine.rc, TRUE))
         IN Return(DeliverReplies(S1, ref, mine.replies, updResult), mine.rc)

(***************************************************************************)
(* Main-loop adapter.                                                      *)
(***************************************************************************)
\* DNSServiceRefSockFD: the descriptor of the handle's connection.
DNSServiceRefSockFD(ref) == ref

RECURSIVE ChildRefSeq(_)
ChildRefSeq(children) ==
    IF children = <<>> THEN <<>>
    ELSE (IF Head(children).mServiceRef # 0 THEN <<Head(children).mServiceRef>> ELSE <<>>)
         \o ChildRefSeq(Tail(children))

\* ServiceSubscription::UpdateAll / ProcessAll: own handle, then the children
RECURSIVE ServiceSubscriptionRefs(_)
ServiceSubscriptionRefs(subs) ==
    IF subs = <<>> THEN <<>>
    ELSE (IF Head(subs).mServiceRef # 0 THEN <<Head(subs).mServiceRef>> ELSE <<>>)
         \o ChildRefSeq(Head(subs).mResolvingInstances)
         \o ServiceSubscriptionRefs(Tail(subs))

RECURSIVE HostSubscriptionRefs(_)
HostSubscriptionRefs(subs) ==
    IF subs = <<>> THEN <<>>
    ELSE (IF Head(subs).mServiceRef # 0 THEN <<Head(subs).mServiceRef>> ELSE <<>>)
         \o HostSubscriptionRefs(Tail(subs))

AllRefs(S) ==
    (IF S.hk # 0 THEN <<S.hk>> ELSE <<>>)
    \o ServiceSubscriptionRefs(S.ssub) \o HostSubscriptionRefs(S.hsub)

\* FD_SET(fd, &aMainloop.mReadFdSet); mMaxFd = std::max(mMaxFd, fd), for each handle
RECURSIVE FdSet(_, _)
FdSet(S, refs) ==
    IF refs = <<>> THEN S
    ELSE LET fd == DNSServiceRefSockFD(Head(refs))
         IN FdSet([S EXCEPT !.fds = @ \cup {fd}, !.maxfd = IF fd > @ THEN fd ELSE @],
                  Tail(refs))

\* an Update that leaves out the subscriptions
UpdateSharedOnly(S) ==
    IF S.hk # 0 /\ Freed(S, S.hk) /\ S.abort
    THEN Terminate(S, S.hk, "use-after-free")
    ELSE FdSet(S, IF S.hk # 0 THEN <<S.hk>> ELSE <<>>)

\* Update: the descriptor of every handle goes into the read set.  Reading
\* the descriptor of a freed shared handle is a use after free.
Update(S) ==
    IF S.hk # 0 /\ Freed(S, S.hk) /\ S.abort
    THEN Terminate(S, S.hk, "use-after-free")
    ELSE FdSet(S, AllRefs(S))

SelectSeq2(s, set) == SelectSeq(s, LAMBDA r : DNSServiceRefSockFD(r) \in set)

RECURSIVE ProcessReady(_, _, _, _)
Process(S, readable, d, updResult) ==
    LET readyServices == SelectSeq2(AllRefs(S), readable)
    IN ProcessReady(S, readyServices, d, updResult)

ProcessReady(S, readyServices, d, updResult) ==
    IF readyServices = <<>> \/ S.crashed THEN S
    ELSE LET S1 == DNSServiceProcessResult(S, Head(readyServices), d, updResult)
         IN IF S1.crashed THEN S1
            ELSE IF S1.ret = "ServiceNotRunning"
            THEN LET S2 == Stop(S1, updResult)
                 IN IF S2.crashed THEN S2 ELSE Start(S2)
            ELSE ProcessReady(S1, Tail(readyServices), d, updResult)

(***************************************************************************)
(* The state machine.                                                      *)
(***************************************************************************)
Cur ==
    [state |-> mState, hk |-> mHostsAndKeysRef, svc |-> mServiceRegistrations,
     host |-> mHostRegistrations, key |-> mKeyRegistrations,
     ssub |-> mSubscribedServices, hsub |-> mSubscribedHosts,
     live |-> liveRefs, recs |-> liveRecs, callbacks |-> callbacks,
     crashed |-> crashed, fds |-> mReadFdSet, maxfd |-> -1, ret |-> "NONE",
     log |-> <<>>, abort |-> FALSE, env |-> NoFailure]

\* The snapshot a handler starts from: the caller's callback (0 = none)
\* marked as handed in, the daemon's decisions of this run in place.
Begin(cb, env) ==
    [Cur EXCEPT !.callbacks = [id \in CbIds |-> IF id = cb THEN "pending" ELSE @[id]],
                !.abort = env.abort, !.env = env]

\* lastOp: the handler, the key and parameters it was called with, the
\* caller's callback, its return value and the state it was called in.
CommitApp(S0, op, name, params, cb, a) ==
    LET S == Settle(S0)
    IN /\ mState' = S.state
       /\ mHostsAndKeysRef' = S.hk
       /\ mServiceRegistrations' = S.svc
       /\ mHostRegistrations' = S.host
       /\ mKeyRegistrations' = S.key
       /\ mSubscribedServices' = S.ssub
       /\ mSubscribedHosts' = S.hsub
       /\ liveRefs' = S.live
       /\ liveRecs' = S.recs
       /\ callbacks' = S.callbacks
       /\ crashed' = S.crashed
       /\ mReadFdSet' = S.fds
       /\ log' = S.log
       /\ lastOp' = [op |-> op, name |-> name, params |-> params, cb |-> cb,
                     ret |-> S.ret, state |-> mState]
       /\ app' = a

\* a handler that leaves the application's own records alone
Commit(S0, op, name, params, cb) == CommitApp(S0, op, name, params, cb, app)

NoOp == [op |-> "None", name |-> "", params |-> <<>>, cb |-> 0, ret |-> "NONE",
         state |-> kIdle]

\* Application::kPollTimeout, in seconds
kPollTimeout == 10

\* the MainloopContext a tick of Application::Run starts from
FreshContext ==
    [mMaxFd |-> -1, mTimeout |-> kPollTimeout, mReadFdSet |-> {}, mWriteFdSet |-> {},
     mErrorFdSet |-> {}]

\* The application: the subscriptions it holds, and Application::Run: where
\* it stands (pc), sShouldTerminate, whether mErrorCondition is set, the
\* tick's MainloopContext, the result of select and the value Run returns.
AppInit ==
    [subscribed |-> {}, pc |-> "NotRunning", sShouldTerminate |-> FALSE,
     mErrorCondition |-> FALSE, mainloop |-> FreshContext, rval |-> 0, errno |-> "",
     error |-> "NONE"]

\* Single-threaded: a handler is entered only from the main loop.
InLoop == ~crashed /\ lastOp = NoOp

Init ==
    /\ mState = kIdle
    /\ mHostsAndKeysRef = 0
    /\ mServiceRegistrations = <<>>
    /\ mHostRegistrations = <<>>
    /\ mKeyRegistrations = <<>>
    /\ mSubscribedServices = <<>>
    /\ mSubscribedHosts = <<>>
    /\ liveRefs = {}
    /\ liveRecs = {}
    /\ callbacks = [id \in CbIds |-> "free"]
    /\ crashed = FALSE
    /\ mReadFdSet = {}
    /\ lastOp = NoOp
    /\ log = <<>>
    /\ app = AppInit

\* Model bounds on what is stored at the same time.
RoomForRegistration ==
    Len(mServiceRegistrations) + Len(mHostRegistrations) + Len(mKeyRegistrations) < MaxRegs
RoomForSubscription(max) == Len(mSubscribedServices) + Len(mSubscribedHosts) < max

CallStart ==
    /\ InLoop
    /\ Commit(Start(Cur), "Start", "", <<>>, 0)

CallStop(envs) ==
    /\ InLoop
    /\ \E e \in envs : Commit(Stop(Begin(0, e), e.updResult), "Stop", "", <<>>, 0)

CallPublishService(names, envs) ==
    /\ InLoop /\ FreeCallbacks # {} /\ RoomForRegistration
    /\ \E n \in names, t \in ServiceTypes, p \in ServiceParams, e \in envs :
         Commit(PublishServiceImpl(Begin(NewCallback, e), n, t, p, <<NewCallback>>, e),
                "PublishService", MakeFullServiceName(n, t), <<n, p>>, NewCallback)

CallUnpublishService(names, envs) ==
    /\ InLoop /\ FreeCallbacks # {}
    /\ \E n \in names, t \in ServiceTypes, e \in envs :
         Commit(UnpublishService(Begin(NewCallback, e), n, t, <<NewCallback>>),
                "UnpublishService", MakeFullServiceName(n, t), <<>>, NewCallback)

CallPublishHost(envs) ==
    /\ InLoop /\ FreeCallbacks # {} /\ RoomForRegistration
    /\ \E n \in HostNames, a \in AddressLists, e \in envs :
         Commit(PublishHostImpl(Begin(NewCallback, e), n, a, <<NewCallback>>, e),
                "PublishHost", MakeFullHostName(n), <<n, a>>, NewCallback)

CallUnpublishHost(envs) ==
    /\ InLoop /\ FreeCallbacks # {}
    /\ \E n \in HostNames, e \in envs :
         Commit(UnpublishHost(Begin(NewCallback, e), n, <<NewCallback>>, e),
                "UnpublishHost", MakeFullHostName(n), <<>>, NewCallback)

CallPublishKey(names, envs) ==
    /\ InLoop /\ FreeCallbacks # {} /\ RoomForRegistration
    /\ \E n \in names, k \in KeyDatas, e \in envs :
         Commit(PublishKeyImpl(Begin(NewCallback, e), n, k, <<NewCallback>>, e),
                "PublishKey", MakeFullKeyName(n), <<n, k>>, NewCallback)

CallUnpublishKey(names, envs) ==
    /\ InLoop /\ FreeCallbacks # {}
    /\ \E n \in names, e \in envs :
         Commit(UnpublishKey(Begin(NewCallback, e), n, <<NewCallback>>, e),
                "UnpublishKey", MakeFullKeyName(n), <<>>, NewCallback)

CallSubscribeService(max, envs) ==
    /\ InLoop /\ RoomForSubscription(max)
    /\ \E t \in SubscribeTypes, i \in InstanceNames, e \in envs :
         Commit(SubscribeService(Begin(0, e), t, i), "SubscribeService", i, <<t, i>>, 0)

CallUnsubscribeService(envs) ==
    /\ InLoop
    /\ \E t \in SubscribeTypes, i \in InstanceNames, e \in envs :
         /\ mState = kReady => ServiceSubscriptionIndex(Cur, t, i) # 0
         /\ Commit(UnsubscribeService(Begin(0, e), t, i), "UnsubscribeService", i, <<>>, 0)

CallSubscribeHost(max, envs) ==
    /\ InLoop /\ RoomForSubscription(max)
    /\ \E n \in SubscribeHostNames, e \in envs :
         Commit(SubscribeHost(Begin(0, e), n), "SubscribeHost", n, <<>>, 0)

CallUnsubscribeHost(envs) ==
    /\ InLoop
    /\ \E n \in SubscribeHostNames, e \in envs :
         /\ mState = kReady => HostSubscriptionIndex(Cur, n) # 0
         /\ Commit(UnsubscribeHost(Begin(0, e), n), "UnsubscribeHost", n, <<>>, 0)

Dispatches(S) ==
    {NoDispatch}
    \cup UNION {{[ref |-> r, rc |-> "NoError", replies |-> q] :
                    q \in SeqsUpTo(Replies(S, r), MaxBatch) \ {<<>>}} : r \in S.fds}
    \cup {[ref |-> r, rc |-> "ServiceNotRunning", replies |-> <<>>] : r \in S.fds}

\* One iteration of the main loop: Update, the wait (which picks the readable
\* descriptors and the daemon's pending replies), Process.
MainloopTick(envs) ==
    /\ InLoop
    /\ \E e \in envs :
         LET U == Update(Begin(0, e))
         IN IF U.crashed THEN Commit(U, "Update", "", <<>>, 0)
            ELSE \E d \in Dispatches(U) :
                   \E readable \in SUBSET U.fds :
                      /\ d.ref # 0 => d.ref \in readable
                      /\ Commit(Process(U, readable, d, e.updResult), "Process", "",
                                d.replies, 0)

\* The handler has returned; its trace is dropped.  The next iteration of
\* the main loop starts with an empty MainloopContext (FD_ZERO).
ReturnToLoop ==
    /\ ~crashed /\ lastOp # NoOp
    /\ lastOp' = NoOp
    /\ log' = <<>>
    /\ mReadFdSet' = {}
    /\ UNCHANGED <<mState, mHostsAndKeysRef, mServiceRegistrations, mHostRegistrations,
                   mKeyRegistrations, mSubscribedServices, mSubscribedHosts, liveRefs,
                   liveRecs, callbacks, crashed, app>>

\* The daemon's decisions: none fails, or a use of a freed handle is fatal.
Plain == {NoFailure} \cup Aborting({NoFailure})

\* Every operation of the publisher, one service name, one key name (the
\* key of that service), teardown updates that succeed.
Next ==
    \/ CallStart
    \/ CallStop(Plain)
    \/ CallPublishService({DefaultName}, ServiceEnvs \cup Aborting({NoFailure}))
    \/ CallUnpublishService({DefaultName}, Plain)
    \/ CallPublishHost(HostEnvs \cup Aborting({NoFailure}))
    \/ CallUnpublishHost(Plain)
    \/ CallPublishKey({"D._t"}, KeyEnvs \cup Aborting({NoFailure}))
    \/ CallUnpublishKey({"D._t"}, Plain)
    \/ CallSubscribeService(MaxSubs, {NoFailure})
    \/ CallUnsubscribeService({NoFailure})
    \/ CallSubscribeHost(MaxSubs, {NoFailure})
    \/ CallUnsubscribeHost({NoFailure})
    \/ MainloopTick(Plain)
    \/ ReturnToLoop

Spec == Init /\ [][Next]_vars

\* One iteration of the main loop of a publisher used for discovery: the
\* wait picks the readable descriptors and the discovery replies pending on
\* one of them; the replies dispatched are kept in lastOp.params.
DiscoveryTick(envs) ==
    /\ InLoop
    /\ \E e \in envs :
         LET U == Update(Begin(0, e))
         IN IF U.crashed THEN Commit(U, "Update", "", <<>>, 0)
            ELSE \E d \in {NoDispatch} \cup UNION
                          {{[ref |-> r, rc |-> "NoError", replies |-> q] :
                               q \in SeqsUpTo(DiscoveryReplies(U, r), MaxBatch) \ {<<>>}}
                           : r \in U.fds} :
                   \E readable \in SUBSET U.fds :
                      /\ d.ref # 0 => d.ref \in readable
                      /\ Commit(Process(U, readable, d, e.updResult), "Process", "",
                                d.replies, 0)

\* A publisher used for discovery only: Start, Stop, the four subscription
\* calls and the main loop; the first operation a handler starts may fail.
DiscoveryNext ==
    \/ CallStart
    \/ CallStop({NoFailure})
    \/ CallSubscribeService(MaxSubscriptions, SubscribeEnvs)
    \/ CallUnsubscribeService({NoFailure})
    \/ CallSubscribeHost(MaxSubscriptions, SubscribeEnvs)
    \/ CallUnsubscribeHost({NoFailure})
    \/ DiscoveryTick(SubscribeEnvs)
    \/ ReturnToLoop

DiscoverySpec == Init /\ [][DiscoveryNext]_vars

\* One iteration of the main loop: the wait picks the readable descriptors
\* and the replies pending on one of them, among them a service-register
\* reply on the shared connection for a handle that names no stored
\* registration.
StaleReplyTick ==
    /\ InLoop
    /\ LET U == Update(Begin(0, NoFailure))
           stale == {r \in [kind : {"stale"}, id : RefPool, err : ReplyErrors, add : BOOLEAN] :
                       /\ U.hk \in U.fds
                       /\ ReplyValid(U, U.hk, r)
                       /\ r.err # "NoError" => ~r.add}
       IN \E d \in Dispatches(U)
                     \cup {[ref |-> U.hk, rc |-> "NoError", replies |-> <<r>>] : r \in stale} :
             \E readable \in SUBSET U.fds :
                /\ d.ref # 0 => d.ref \in readable
                /\ Commit(Process(U, readable, d, NoFailure.updResult), "Process", "",
                          d.replies, 0)

\* Services published and unpublished, with replies that arrive for handles
\* whose registration is gone.
StaleReplyNext ==
    \/ CallStart
    \/ CallStop({NoFailure})
    \/ CallPublishService(ServiceNames, {NoFailure})
    \/ CallUnpublishService(ServiceNames, {NoFailure})
    \/ StaleReplyTick
    \/ ReturnToLoop

StaleReplySpec == Init /\ [][StaleReplyNext]_vars

\* A caller that tracks its own subscriptions: it subscribes, while the
\* publisher is ready, what it does not hold, unsubscribes only what it
\* holds, and keeps its records across Stop, Start and a restart by Process.
TrackedSubscribeService ==
    /\ InLoop /\ mState = kReady /\ RoomForSubscription(MaxSubscriptions)
    /\ \E t \in SubscribeTypes, i \in InstanceNames :
         /\ <<"service", t, i>> \notin app.subscribed
         /\ CommitApp(SubscribeService(Begin(0, NoFailure), t, i), "SubscribeService", i,
                      <<t, i>>, 0, [app EXCEPT !.subscribed = @ \cup {<<"service", t, i>>}])

TrackedUnsubscribeService ==
    /\ InLoop
    /\ \E t \in SubscribeTypes, i \in InstanceNames :
         /\ <<"service", t, i>> \in app.subscribed
         /\ CommitApp(UnsubscribeService(Begin(0, NoFailure), t, i), "UnsubscribeService", i,
                      <<t, i>>, 0, [app EXCEPT !.subscribed = @ \ {<<"service", t, i>>}])

TrackedSubscribeHost ==
    /\ InLoop /\ mState = kReady /\ RoomForSubscription(MaxSubscriptions)
    /\ \E n \in SubscribeHostNames :
         /\ <<"host", "", n>> \notin app.subscribed
         /\ CommitApp(SubscribeHost(Begin(0, NoFailure), n), "SubscribeHost", n, <<"", n>>, 0,
                      [app EXCEPT !.subscribed = @ \cup {<<"host", "", n>>}])

TrackedUnsubscribeHost ==
    /\ InLoop
    /\ \E n \in SubscribeHostNames :
         /\ <<"host", "", n>> \in app.subscribed
         /\ CommitApp(UnsubscribeHost(Begin(0, NoFailure), n), "UnsubscribeHost", n, <<"", n>>,
                      0, [app EXCEPT !.subscribed = @ \ {<<"host", "", n>>}])

TrackingNext ==
    \/ CallStart
    \/ CallStop({NoFailure})
    \/ TrackedSubscribeService
    \/ TrackedUnsubscribeService
    \/ TrackedSubscribeHost
    \/ TrackedUnsubscribeHost
    \/ MainloopTick({NoFailure})
    \/ ReturnToLoop

TrackingSpec == Init /\ [][TrackingNext]_vars

(***************************************************************************)
(* Application::Run: the main loop.  Each step of the loop body is an      *)
(* action; HandleSignal may run between any two of them.  The other        *)
(* components served by MainloopManager::Process act on the publisher      *)
(* after the publisher's own Process and before the error-condition hook.  *)
(***************************************************************************)
Errnos == {"EINTR", "EBADF"}
HookResults == {"NONE", "OPENTHREAD"}

RunInit ==
    /\ mState = kIdle
    /\ mHostsAndKeysRef = 0
    /\ mServiceRegistrations = <<>>
    /\ mHostRegistrations = <<>>
    /\ mKeyRegistrations = <<>>
    /\ mSubscribedServices = <<>>
    /\ mSubscribedHosts = <<>>
    /\ liveRefs = {}
    /\ liveRecs = {}
    /\ callbacks = [id \in CbIds |-> "free"]
    /\ crashed = FALSE
    /\ mReadFdSet = {}
    /\ lastOp = NoOp
    /\ log = <<>>
    /\ \E h \in BOOLEAN : app = [AppInit EXCEPT !.pc = "loop", !.mErrorCondition = h]

PublisherUnchanged ==
    UNCHANGED <<mState, mHostsAndKeysRef, mServiceRegistrations, mHostRegistrations,
                mKeyRegistrations, mSubscribedServices, mSubscribedHosts, liveRefs,
                liveRecs, callbacks, crashed, mReadFdSet, lastOp, log>>

\* while (!sShouldTerminate) { mainloop.mMaxFd = -1; mainloop.mTimeout =
\* kPollTimeout; FD_ZERO of the three sets
RunLoop ==
    /\ app.pc = "loop" /\ InLoop
    /\ app' = IF app.sShouldTerminate THEN [app EXCEPT !.pc = "returned"]
              ELSE [app EXCEPT !.pc = "update", !.mainloop = FreshContext]
    /\ PublisherUnchanged

\* MainloopManager::GetInstance().Update(mainloop)
RunUpdate ==
    /\ app.pc = "update" /\ ~crashed
    /\ LET U == Update([Begin(0, NoFailure) EXCEPT !.fds = app.mainloop.mReadFdSet,
                                                   !.maxfd = app.mainloop.mMaxFd])
       IN CommitApp(U, "Update", "", <<>>, 0,
                    [app EXCEPT !.pc = "select", !.mainloop.mReadFdSet = U.fds,
                                !.mainloop.mMaxFd = U.maxfd])

\* a failed wait handled like a wait that found nothing ready
RunSelectIgnoringFailure ==
    /\ app.pc = "select" /\ ~crashed
    /\ \/ \E readable \in SUBSET app.mainloop.mReadFdSet :
            app' = [app EXCEPT !.pc = "process", !.rval = Cardinality(readable),
                               !.mainloop.mReadFdSet = readable,
                               !.mainloop.mTimeout = IF readable = {} THEN 0 ELSE @]
       \/ \E e \in Errnos :
            app' = [app EXCEPT !.rval = -1, !.errno = e, !.pc = "process"]
    /\ PublisherUnchanged

\* rval = select(mMaxFd + 1, ...): the descriptors found ready are left in
\* the read set, or the wait fails with errno; rval >= 0 goes on to Process,
\* EINTR to the loop condition, any other failure ends Run with
\* OTBR_ERROR_ERRNO
RunSelect ==
    /\ app.pc = "select" /\ ~crashed
    /\ \/ \E readable \in SUBSET app.mainloop.mReadFdSet :
            app' = [app EXCEPT !.pc = "process", !.rval = Cardinality(readable),
                               !.mainloop.mReadFdSet = readable,
                               !.mainloop.mTimeout = IF readable = {} THEN 0 ELSE @]
       \/ \E e \in Errnos :
            app' = [app EXCEPT !.rval = -1, !.errno = e,
                               !.pc = IF e = "EINTR" THEN "loop" ELSE "returned",
                               !.error = IF e = "EINTR" THEN @ ELSE "ERRNO"]
    /\ PublisherUnchanged

\* MainloopManager::GetInstance().Process(mainloop): the publisher
RunProcess ==
    /\ app.pc = "process" /\ ~crashed
    /\ LET S == Begin(0, NoFailure)
       IN \E d \in Dispatches(S) :
            /\ d.ref # 0 => d.ref \in app.mainloop.mReadFdSet
            /\ CommitApp(Process(S, app.mainloop.mReadFdSet, d, NoFailure.updResult),
                         "Process", "", d.replies, 0, [app EXCEPT !.pc = "others"])

\* MainloopManager::GetInstance().Process(mainloop): the components that
\* use the publisher
RunComponents ==
    /\ app.pc = "others"
    /\ \/ CallStart
       \/ CallPublishHost({NoFailure})
       \/ CallSubscribeHost(MaxSubs, {NoFailure})

\* a handler of the publisher has returned
RunReturn == app.pc \in {"loop", "others"} /\ ReturnToLoop

\* if (mErrorCondition) { error = mErrorCondition(); if (error !=
\* OTBR_ERROR_NONE) break; }
RunErrorCondition ==
    /\ app.pc = "others" /\ InLoop
    /\ \E h \in HookResults :
         app' = IF app.mErrorCondition
                THEN [app EXCEPT !.error = h, !.pc = IF h # "NONE" THEN "returned" ELSE "loop"]
                ELSE [app EXCEPT !.pc = "loop"]
    /\ PublisherUnchanged

\* Application::HandleSignal: sShouldTerminate = true; signal(aSignal, SIG_DFL)
HandleSignal ==
    /\ app.pc \notin {"NotRunning", "returned"} /\ ~app.sShouldTerminate /\ ~crashed
    /\ app' = [app EXCEPT !.sShouldTerminate = TRUE]
    /\ PublisherUnchanged

RunNext ==
    \/ RunLoop
    \/ RunUpdate
    \/ RunSelect
    \/ RunProcess
    \/ RunComponents
    \/ RunReturn
    \/ RunErrorCondition
    \/ HandleSignal

RunSpec == RunInit /\ [][RunNext]_vars

\* Discovery with a consumer that may unsubscribe inside a notification.
ReentrantNext ==
    \/ CallStart
    \/ CallSubscribeService(MaxSubscriptions, {NoFailure})
    \/ CallUnsubscribeService({NoFailure})
    \/ CallSubscribeHost(MaxSubscriptions, {NoFailure})
    \/ CallUnsubscribeHost({NoFailure})
    \/ DiscoveryTick(ConsumerEnvs)
    \/ ReturnToLoop

ReentrantSpec == Init /\ [][ReentrantNext]_vars

(***************************************************************************)
(* A daemon that accepts every request: no call fails, every reply is a    *)
(* confirmation, and the main loop gets to every reply that is pending.    *)
(* Nothing is unpublished and a key is published only while none is        *)
(* stored, so a stored key registration is neither removed nor superseded. *)
(***************************************************************************)
\* the confirmations pending on connection conn
Confirmations(S, conn) ==
    {reply \in Replies(S, conn) : reply.err = "NoError" /\ (reply.kind = "svc" => reply.add)}

\* One iteration of the main loop in which every descriptor is readable and
\* the confirmation of one of the handles ids is dispatched.
ConfirmTick(kind, ids) ==
    /\ InLoop
    /\ LET U == Update(Begin(0, NoFailure))
       IN \E r \in U.fds :
            \E reply \in {c \in Confirmations(U, r) : c.kind = kind /\ c.id \in ids} :
               Commit(Process(U, U.fds, [ref |-> r, rc |-> "NoError", replies |-> <<reply>>],
                              "NoError"),
                      "Process", "", <<reply>>, 0)

CallPublishKeyOnce ==
    /\ mKeyRegistrations = <<>>
    /\ CallPublishKey({"D._t"}, {NoFailure})

AcceptingNext ==
    \/ CallStart
    \/ CallPublishService({DefaultName}, {NoFailure})
    \/ CallPublishKeyOnce
    \/ ConfirmTick("svc", RefPool)
    \/ ConfirmTick("rec", RecPool)
    \/ ReturnToLoop

\* The confirmation of record id is pending when the loop waits.
ConfirmationPending(id) ==
    /\ InLoop
    /\ LET U == Update(Begin(0, NoFailure))
       IN \E r \in U.fds : \E c \in Confirmations(U, r) : c.kind = "rec" /\ c.id = id

\* ConfirmTick("rec", {id}) as lastOp shows it: the loop goes from waiting
\* to a Process that dispatched the confirmation of record id.
ConfirmationDispatched(id) ==
    /\ ConfirmationPending(id)
    /\ lastOp' \in {o \in [op : {"Process"}, name : {""}, cb : {0}, state : {mState},
                            ret : {"NONE", "NoError"},
                            params : {<<c>> : c \in Confirmations(Update(Begin(0, NoFailure)),
                                                                 mHostsAndKeysRef)}] :
                       o.params[1].kind = "rec" /\ o.params[1].id = id}

\* The main loop runs for ever: a handler returns, and a confirmation that
\* is pending whenever the loop waits is dispatched in some iteration.
AcceptingSpec ==
    /\ Init /\ [][AcceptingNext]_vars
    /\ WF_vars(ReturnToLoop)
    /\ \A id \in RecPool : SF_lastOp(ConfirmationDispatched(id))

(***************************************************************************)
(* The pure functions: an input is drawn, the function is applied to it.   *)
(* lastOp holds the function, its arguments and, once applied, its result. *)
(***************************************************************************)
FunctionInit ==
    /\ mState = kIdle
    /\ mHostsAndKeysRef = 0
    /\ mServiceRegistrations = <<>>
    /\ mHostRegistrations = <<>>
    /\ mKeyRegistrations = <<>>
    /\ mSubscribedServices = <<>>
    /\ mSubscribedHosts = <<>>
    /\ liveRefs = {}
    /\ liveRecs = {}
    /\ callbacks = [id \in CbIds |-> "free"]
    /\ crashed = FALSE
    /\ mReadFdSet = {}
    /\ log = <<>>
    /\ app = AppInit
    /\ \/ \E aError \in DNSServiceErrors :
             lastOp = [NoOp EXCEPT !.name = "DNSErrorToOtbrError", !.params = <<aError>>]
       \/ \E aType \in RegTypes,
                aSubTypeList \in UNION {[1..n -> Range(SubTypeNames)] : n \in 0..MaxSubTypes} :
             lastOp = [NoOp EXCEPT !.name = "MakeRegType",
                                   !.params = <<aType, aSubTypeList>>]

CallDNSErrorToOtbrError ==
    /\ lastOp.op = "None" /\ lastOp.name = "DNSErrorToOtbrError"
    /\ lastOp' = [lastOp EXCEPT !.op = "DNSErrorToOtbrError",
                                !.ret = DNSErrorToOtbrError(lastOp.params[1])]
    /\ UNCHANGED <<mState, mHostsAndKeysRef, mServiceRegistrations, mHostRegistrations,
                   mKeyRegistrations, mSubscribedServices, mSubscribedHosts, liveRefs,
                   liveRecs, callbacks, crashed, mReadFdSet, log, app>>

CallMakeRegType ==
    /\ lastOp.op = "None" /\ lastOp.name = "MakeRegType"
    /\ lastOp' = [lastOp EXCEPT !.op = "MakeRegType",
                                !.ret = MakeRegType(lastOp.params[1], lastOp.params[2])]
    /\ UNCHANGED <<mState, mHostsAndKeysRef, mServiceRegistrations, mHostRegistrations,
                   mKeyRegistrations, mSubscribedServices, mSubscribedHosts, liveRefs,
                   liveRecs, callbacks, crashed, mReadFdSet, log, app>>

FunctionNext ==
    \/ CallDNSErrorToOtbrError
    \/ CallMakeRegType

FunctionSpec == FunctionInit /\ [][FunctionNext]_vars

(***************************************************************************)
(* Properties.  They read the trace of the handler that just ran (lastOp,  *)
(* log) or compare the state before and after its step.                    *)
(***************************************************************************)
PublishOps == {"PublishService", "PublishHost", "PublishKey"}
UnpublishOps == {"UnpublishService", "UnpublishHost", "UnpublishKey"}
RegisterCalls == {"Register", "RegisterRecord", "AddRecord"}
DaemonCalls == RegisterCalls \cup {"CreateConnection"}

\* The registration map a publish or unpublish handler works on.
MapOf(op, services, hosts, keys) ==
    IF op \in {"PublishService", "UnpublishService"} THEN services
    ELSE IF op \in {"PublishHost", "UnpublishHost"} THEN hosts
    ELSE keys
OwnMap(op) == MapOf(op, mServiceRegistrations, mHostRegistrations, mKeyRegistrations)

EventsOf(l, evs) == {i \in 1..Len(l) : l[i].ev \in evs}
CallbackEvents(l, id) == {i \in 1..Len(l) : l[i].ev = "cb" /\ l[i].id = id}
SyncFailures(l) == {i \in EventsOf(l, DaemonCalls) : l[i].err # "NoError"}
LiveHandles == {r.ref : r \in liveRefs}

\* C1: every callback handed to a publish or unpublish call is invoked
\* exactly once.  After each handler no callback has run twice, and a
\* callback that has not run yet is held by a stored registration of a
\* running process, which invokes it on completion, removal or Stop.
C1_ExactlyOnce ==
    \A id \in CbIds :
        /\ callbacks[id] # "twice"
        /\ callbacks[id] = "pending" => (~crashed /\ id \in HeldCallbacks(Cur))

\* C2: in Idle, PublishService, PublishHost and PublishKey return
\* invalid-state, invoke the caller's callback with invalid-state and do
\* nothing else: no daemon call, no change of a map, of the shared handle or
\* of the daemon's tables.
C2_IdlePublishRejected ==
    [][(lastOp'.op \in PublishOps /\ mState = kIdle) =>
          /\ lastOp'.ret = "INVALID_STATE"
          /\ log' = <<Ev("cb", lastOp'.cb, 0, "INVALID_STATE", TRUE)>>
          /\ UNCHANGED <<mState, mHostsAndKeysRef, mServiceRegistrations,
                         mHostRegistrations, mKeyRegistrations, liveRefs, liveRecs>>]_vars

C2_Witness ==
    /\ lastOp.op = "PublishKey" /\ lastOp.state = kIdle
    /\ lastOp.ret = "INVALID_STATE" /\ callbacks[lastOp.cb] = "free"

\* C3: each registration map holds at most one entry per full name, after
\* every handler.
UniqueKeys(m) == \A i, j \in 1..Len(m) : m[i].key = m[j].key => i = j

Outdated(op, reg, params) ==
    \/ reg.mName # params[1]
    \/ (IF op = "PublishService" THEN reg.mParams
        ELSE IF op = "PublishHost" THEN reg.mAddresses ELSE reg.mKeyData) # params[2]

SupersededFirst(reg, l) ==
    \A c \in Range(reg.mCallback) :
        \E n \in CallbackEvents(l, c) :
            /\ l[n].err # "NONE"
            /\ \A k \in EventsOf(l, RegisterCalls \cup {"store"}) : n < k

C4_SupersededFirst ==
    [][LET op == lastOp'.op
           i == MapFind(OwnMap(op), lastOp'.name)
       IN (op \in PublishOps /\ mState = kReady /\ i # 0
           /\ Outdated(op, OwnMap(op)[i], lastOp'.params))
          => SupersededFirst(OwnMap(op)[i], log')]_vars

\* a host registration in flight was superseded and the new one stored
C4_Witness ==
    /\ lastOp.op = "PublishHost" /\ lastOp.state = kReady /\ ~crashed
    /\ \E n \in 1..Len(log) :
          /\ log[n].ev = "cb" /\ log[n].id # lastOp.cb /\ log[n].err = "ABORTED"
          /\ \E k \in EventsOf(log, {"RegisterRecord"}) : n < k
          /\ \E k \in EventsOf(log, {"store"}) : n < k
    /\ MapFind(mHostRegistrations, lastOp.name) # 0

\* C5: in Ready, when a daemon call of PublishService, PublishHost or
\* PublishKey fails synchronously, the caller's callback is invoked once,
\* after the failure, with the mapped error, the handler returns that error
\* and no entry for the request is stored.
C5_SyncFailureReported ==
    (lastOp.op \in PublishOps /\ lastOp.state = kReady /\ SyncFailures(log) # {}) =>
        LET f == Min(SyncFailures(log))
            error == DNSErrorToOtbrError(log[f].err)
        IN /\ ~crashed
           /\ Cardinality(CallbackEvents(log, lastOp.cb)) = 1
           /\ \A n \in CallbackEvents(log, lastOp.cb) : n > f /\ log[n].err = error
           /\ lastOp.ret = error
           /\ MapFind(OwnMap(lastOp.op), lastOp.name) = 0

\* C6: whenever mHostsAndKeysRef is non-null it names a connection the
\* daemon library has not freed: only Stop deallocates the shared handle.
C6_SharedHandleLive ==
    mHostsAndKeysRef # 0 => mHostsAndKeysRef \in LiveHandles

\* C7: in Ready an Unpublish call removes the entry of its key, invokes the
\* removed registration's stored callback (if not yet consumed) with
\* aborted, runs the registration's teardown and then invokes the caller's
\* callback with success, as the last thing it does; in Idle it invokes the
\* caller's callback with invalid-state and removes nothing.
Last(l) == l[Len(l)]

TeardownEvents(op, reg, l) ==
    IF op = "UnpublishService"
    THEN {n \in EventsOf(l, {"RefDeallocate"}) : l[n].id = reg.mServiceRef}
    ELSE IF op = "UnpublishKey"
    THEN {n \in EventsOf(l, {"RemoveRecord"}) : l[n].rec = reg.mRecordRef}
    ELSE {n \in EventsOf(l, {"RemoveRecord"}) :
             \E j \in 1..Len(reg.mRecordRefMap) : l[n].rec = reg.mRecordRefMap[j].rec}

C7_Unpublish ==
    [][LET op == lastOp'.op
           i == MapFind(OwnMap(op), lastOp'.name)
       IN op \in UnpublishOps =>
          IF mState = kReady
          THEN /\ MapFind(MapOf(op, mServiceRegistrations', mHostRegistrations',
                                 mKeyRegistrations'), lastOp'.name) = 0
               /\ log' # <<>> /\ Last(log') = Ev("cb", lastOp'.cb, 0, "NONE", TRUE)
               /\ i # 0 =>
                    /\ TeardownEvents(op, OwnMap(op)[i], log') # {}
                    /\ \A c \in Range(OwnMap(op)[i].mCallback) :
                          \E n \in CallbackEvents(log', c) :
                             /\ log'[n].err = "ABORTED"
                             /\ \A k \in TeardownEvents(op, OwnMap(op)[i], log') : n < k
          ELSE /\ log' = <<Ev("cb", lastOp'.cb, 0, "INVALID_STATE", TRUE)>>
               /\ UNCHANGED <<mServiceRegistrations, mHostRegistrations,
                              mKeyRegistrations>>]_vars

\* C8: in Ready, an Unpublish call for a name with no entry in its map
\* invokes the caller's callback with success and nothing else: the three
\* maps, the two subscription lists, the shared handle and the daemon's
\* tables stay as they are.
C8_UnpublishAbsent ==
    [][(lastOp'.op \in UnpublishOps /\ mState = kReady
        /\ MapFind(OwnMap(lastOp'.op), lastOp'.name) = 0) =>
          /\ log' = <<Ev("cb", lastOp'.cb, 0, "NONE", TRUE)>>
          /\ UNCHANGED <<mState, mHostsAndKeysRef, mServiceRegistrations,
                         mHostRegistrations, mKeyRegistrations, mSubscribedServices,
                         mSubscribedHosts, liveRefs, liveRecs>>]_vars

\* a host that is not published is unpublished while a key is stored
C8_Witness ==
    /\ lastOp.op = "UnpublishHost" /\ lastOp.state = kReady /\ ~crashed
    /\ log = <<Ev("cb", lastOp.cb, 0, "NONE", TRUE)>>
    /\ mHostRegistrations = <<>> /\ mKeyRegistrations # <<>> /\ mHostsAndKeysRef # 0

\* C9: Stop ends in Idle, and a Stop called in Idle (so a second Stop in a
\* row) is a no-op: it changes no map, list, handle or state, deallocates
\* nothing and invokes no callback.
C9_StopTwice ==
    [][lastOp'.op = "Stop" =>
          /\ ~crashed' => mState' = kIdle
          /\ mState = kIdle =>
                /\ log' = <<>>
                /\ UNCHANGED <<mState, mHostsAndKeysRef, mServiceRegistrations,
                               mHostRegistrations, mKeyRegistrations, mSubscribedServices,
                               mSubscribedHosts, liveRefs, liveRecs, callbacks, crashed>>]_vars

\* a Stop called while the publisher is Idle
C9_Witness ==
    /\ lastOp.op = "Stop" /\ lastOp.state = kIdle /\ mState = kIdle
    /\ log = <<>> /\ ~crashed

\* C10: when the publisher is Idle and running, the three registration
\* maps and the two subscription lists are empty and mHostsAndKeysRef is
\* null; initially and after every Stop.
C10_IdleIsEmpty ==
    (mState = kIdle /\ ~crashed) =>
        /\ mServiceRegistrations = <<>>
        /\ mHostRegistrations = <<>>
        /\ mKeyRegistrations = <<>>
        /\ mSubscribedServices = <<>>
        /\ mSubscribedHosts = <<>>
        /\ mHostsAndKeysRef = 0

\* a Stop that freed the shared handle and aborted a stored callback
C10_Witness ==
    /\ lastOp.op = "Stop" /\ lastOp.state = kReady /\ mState = kIdle /\ ~crashed
    /\ EventsOf(log, {"RefDeallocate"}) # {}
    /\ \E n \in EventsOf(log, {"cb"}) : log[n].err = "ABORTED"

\* C11: the state observer is invoked with Ready by every Start, and with
\* Idle by every Stop that takes the publisher from Ready to Idle.
C11_StateObserverNotified ==
    /\ (lastOp.op = "Start" /\ ~crashed) =>
          \E n \in EventsOf(log, {"state"}) : log[n].err = kReady
    /\ (lastOp.op = "Stop" /\ lastOp.state = kReady /\ mState = kIdle /\ ~crashed) =>
          \E n \in EventsOf(log, {"state"}) : log[n].err = kIdle

\* C12: Start, called in Idle or in Ready, returns success, leaves the
\* publisher Ready, invokes the state observer once, with Ready, and changes
\* no registration map, no subscription list and not the shared handle (nor
\* anything the daemon holds).
C12_Start ==
    [][lastOp'.op = "Start" =>
          /\ lastOp'.ret = "NONE"
          /\ mState' = kReady
          /\ log' = <<Ev("state", 0, 0, kReady, TRUE)>>
          /\ UNCHANGED <<mHostsAndKeysRef, mServiceRegistrations, mHostRegistrations,
                         mKeyRegistrations, mSubscribedServices, mSubscribedHosts,
                         liveRefs, liveRecs, callbacks, crashed>>]_vars

\* a Start called in Ready with a registration stored on the shared handle
C12_Witness ==
    /\ lastOp.op = "Start" /\ lastOp.state = kReady /\ lastOp.ret = "NONE"
    /\ mState = kReady /\ mHostsAndKeysRef # 0
    /\ mHostRegistrations # <<>>
    /\ log = <<Ev("state", 0, 0, kReady, TRUE)>>

\* C13: a Process in which the dispatch of a ready handle returns
\* service-not-running runs Stop and Start and returns: that dispatch is the
\* last one of the tick, the observer is told Ready after it, and the tick
\* ends with a running publisher in Ready, its three maps and two lists
\* empty and the shared handle null.
NotRunningReports(l) ==
    {n \in EventsOf(l, {"ProcessResult"}) : l[n].err = "ServiceNotRunning"}

C13_RestartOnNotRunning ==
    (lastOp.op = "Process" /\ NotRunningReports(log) # {}) =>
        LET n == Min(NotRunningReports(log))
        IN /\ \A k \in EventsOf(log, {"ProcessResult"}) : k <= n
           /\ \E k \in EventsOf(log, {"state"}) : k > n /\ log[k].err = kReady
           /\ ~crashed
           /\ mState = kReady
           /\ mServiceRegistrations = <<>>
           /\ mHostRegistrations = <<>>
           /\ mKeyRegistrations = <<>>
           /\ mSubscribedServices = <<>>
           /\ mSubscribedHosts = <<>>
           /\ mHostsAndKeysRef = 0

\* C14: a service-instance resolution notifies the consumer exactly once,
\* with OnServiceResolved or with OnServiceResolveFailed, in the handler run
\* that ends it, and not before: in the trace of a tick whose reply went to a
\* resolve or address operation there are as many of these notifications as
\* resolutions removed (one or none).
ResolutionNotes(l) == EventsOf(l, {"OnServiceResolved", "OnServiceResolveFailed"})

C14_NotifiedExactlyOnce ==
    (lastOp.op = "Process" /\ Len(lastOp.params) = 1 /\ lastOp.params[1].kind # "Browse") =>
        Cardinality(ResolutionNotes(log))
            = Cardinality(EventsOf(log, {"RemoveInstanceResolution"}))

\* C15: mSubscribedServices holds at most one subscription per (type,
\* instance name) and mSubscribedHosts at most one per host name.
C15_UniqueSubscriptions ==
    /\ \A i, j \in 1..Len(mSubscribedServices) :
          (/\ mSubscribedServices[i].mType = mSubscribedServices[j].mType
           /\ mSubscribedServices[i].mInstanceName = mSubscribedServices[j].mInstanceName)
          => i = j
    /\ \A i, j \in 1..Len(mSubscribedHosts) :
          mSubscribedHosts[i].mHostName = mSubscribedHosts[j].mHostName => i = j

\* C16: in Idle the four subscription calls do nothing: their trace is empty
\* (no daemon request, no deallocation, no failed assertion) and state, maps,
\* lists, handles and daemon tables are unchanged.
SubscriptionOps == {"SubscribeService", "UnsubscribeService", "SubscribeHost", "UnsubscribeHost"}

C16_IdleSubscriptionNoOp ==
    [][(lastOp'.op \in SubscriptionOps /\ mState = kIdle) =>
          /\ log' = <<>>
          /\ UNCHANGED <<mState, mHostsAndKeysRef, mServiceRegistrations, mHostRegistrations,
                         mKeyRegistrations, mSubscribedServices, mSubscribedHosts, liveRefs,
                         liveRecs, callbacks, crashed, mReadFdSet>>]_vars

\* an UnsubscribeHost in Idle, where no subscription can match
C16_Witness ==
    /\ lastOp.op = "UnsubscribeHost" /\ lastOp.state = kIdle
    /\ mState = kIdle /\ mSubscribedHosts = <<>> /\ log = <<>> /\ ~crashed

\* C17: in Ready SubscribeService appends one subscription for its type and
\* instance name behind the ones held.  With an empty instance name it
\* issues one browse, whose handle the subscription keeps, and creates no
\* child; otherwise it issues no browse and one resolve, and the
\* subscription has exactly one child, for (instance name, type, local.) on
\* interface index 0 (any).
C17_SubscribeService ==
    [][(lastOp'.op = "SubscribeService" /\ mState = kReady) =>
          LET new == mSubscribedServices'
              sub == new[Len(new)]
              browses == EventsOf(log', {"Browse"})
              resolves == EventsOf(log', {"Resolve"})
          IN /\ Len(new) = Len(mSubscribedServices) + 1
             /\ SubSeq(new, 1, Len(new) - 1) = mSubscribedServices
             /\ sub.mType = lastOp'.params[1] /\ sub.mInstanceName = lastOp'.params[2]
             /\ IF lastOp'.params[2] = ""
                THEN /\ Cardinality(browses) = 1 /\ resolves = {}
                     /\ \A n \in browses : log'[n].id = sub.mServiceRef
                     /\ sub.mResolvingInstances = <<>>
                ELSE /\ browses = {} /\ Cardinality(resolves) = 1
                     /\ sub.mServiceRef = 0
                     /\ Len(sub.mResolvingInstances) = 1
                     /\ LET child == sub.mResolvingInstances[1]
                        IN /\ child.mInstanceName = lastOp'.params[2]
                           /\ child.mType = lastOp'.params[1]
                           /\ child.mDomain = "local."
                           /\ child.mNetifIndex = 0
                           /\ \A n \in resolves : log'[n].id = child.mServiceRef]_vars

\* a second subscription, for instance "i", whose resolve is running
C17_Witness ==
    /\ lastOp.op = "SubscribeService" /\ lastOp.state = kReady /\ lastOp.params[2] = "i"
    /\ Len(mSubscribedServices) = 2
    /\ mSubscribedServices[2].mResolvingInstances # <<>>
    /\ mSubscribedServices[2].mResolvingInstances[1].mServiceRef \in LiveHandles

\* C18: every address reported by OnServiceResolved is the address of an
\* address-lookup reply handled in this tick that is an error-free add event
\* for an IPv6 address that is none of unspecified, link-local, multicast
\* and loopback: of ::, ::1, fe80::1, ff02::1 and 2001:db8::1 only the last.
C18_InstanceAddressFilter ==
    lastOp.op = "Process" =>
        \A n \in EventsOf(log, {"OnServiceResolved"}) :
            \A k \in 1..Len(log[n].info.mAddresses) :
                \E m \in 1..Len(lastOp.params) :
                    LET reply == lastOp.params[m]
                    IN /\ reply.kind = "GetAddrInfo" /\ reply.err = "NoError"
                       /\ reply.add /\ reply.family = "AF_INET6"
                       /\ log[n].info.mAddresses[k] = reply.address
                       /\ ~IsUnspecified(reply.address) /\ ~IsLinkLocal(reply.address)
                       /\ ~IsMulticast(reply.address) /\ ~IsLoopback(reply.address)
                       /\ reply.address = <<8193, 3512, 1>>

\* an instance resolved with 2001:db8::1
C18_Witness ==
    /\ lastOp.op = "Process" /\ ~crashed
    /\ \E n \in EventsOf(log, {"OnServiceResolved"}) :
          log[n].info.mAddresses = << <<8193, 3512, 1>> >>

\* C19: the address reply handled for a host subscription is reported by
\* OnHostResolved, as the last address of the host info, if and only if it
\* has no error, is an add event, is IPv6 and is not link-local (fe80::1);
\* loopback, multicast and the unspecified address are reported.
C19_HostAddressFilter ==
    (/\ lastOp.op = "Process" /\ Len(lastOp.params) = 1
     /\ lastOp.params[1].kind = "GetAddrInfo"
     /\ HostContext(Cur, lastOp.params[1].id) # 0) =>
        LET reply == lastOp.params[1]
            reported == \E n \in EventsOf(log, {"OnHostResolved"}) :
                           /\ log[n].info.mAddresses # <<>>
                           /\ Last(log[n].info.mAddresses) = reply.address
        IN reported <=> (/\ reply.err = "NoError" /\ reply.add /\ reply.family = "AF_INET6"
                         /\ reply.address # <<65152, 0, 1>>)

\* ff02::1 reported for a host
C19_Witness ==
    /\ lastOp.op = "Process" /\ Len(lastOp.params) = 1 /\ ~crashed
    /\ lastOp.params[1].address = <<65282, 0, 1>>
    /\ \E n \in EventsOf(log, {"OnHostResolved"}) :
          Last(log[n].info.mAddresses) = <<65282, 0, 1>>

\* C20: a host subscription is complete with its first accepted address:
\* every OnHostResolved carries host info with exactly one address, so none
\* follows the first.
C20_HostCompletesOnFirst ==
    \A n \in EventsOf(log, {"OnHostResolved"}) : Len(log[n].info.mAddresses) = 1

\* C21: when UnpublishHost removes a completed host registration with N
\* address records, exactly N withdrawal updates (one per record) and
\* exactly N record removals are issued on the registration's connection
\* handle, every removal after every withdrawal update, whatever the
\* results of the updates.
RecordEvents(l, ev, reg) ==
    {n \in EventsOf(l, {ev}) :
        /\ l[n].id = reg.mServiceRef
        /\ \E j \in 1..Len(reg.mRecordRefMap) : l[n].rec = reg.mRecordRefMap[j].rec}

C21_GoodbyeOnUnpublish ==
    [][LET i == MapFind(mHostRegistrations, lastOp'.name)
           reg == mHostRegistrations[i]
           N == Len(reg.mRecordRefMap)
           updates == RecordEvents(log', "UpdateRecord", reg)
           removals == RecordEvents(log', "RemoveRecord", reg)
       IN (lastOp'.op = "UnpublishHost" /\ mState = kReady /\ i # 0 /\ IsCompleted(reg)) =>
             /\ Cardinality(updates) = N
             /\ Cardinality(removals) = N
             /\ \A j \in 1..N :
                   /\ \E u \in updates : log'[u].rec = reg.mRecordRefMap[j].rec
                   /\ \E r \in removals : log'[r].rec = reg.mRecordRefMap[j].rec
             /\ \A u \in updates, r \in removals : u < r]_vars

\* C22: the daemon-error mapping is total: no-error gives none; no-such-key,
\* no-such-name and no-such-record give not-found; invalid, bad-param,
\* bad-flags and bad-interface-index give invalid-arguments; name-conflict
\* gives duplicated; unsupported gives not-implemented; service-not-running
\* gives invalid-state; every other daemon code gives the generic mDNS error.
OtbrErrors ==
    {"NONE", "NOT_FOUND", "INVALID_ARGS", "DUPLICATED", "NOT_IMPLEMENTED",
     "INVALID_STATE", "MDNS"}

C22_ErrorMapping ==
    lastOp.op = "DNSErrorToOtbrError" =>
        LET aError == lastOp.params[1]
            NotFound == {"NoSuchKey", "NoSuchName", "NoSuchRecord"}
            InvalidArgs == {"Invalid", "BadParam", "BadFlags", "BadInterfaceIndex"}
            Named == {"NoError", "NameConflict", "Unsupported", "ServiceNotRunning"}
                         \cup NotFound \cup InvalidArgs
        IN /\ lastOp.ret \in OtbrErrors
           /\ aError = "NoError" => lastOp.ret = "NONE"
           /\ aError \in NotFound => lastOp.ret = "NOT_FOUND"
           /\ aError \in InvalidArgs => lastOp.ret = "INVALID_ARGS"
           /\ aError = "NameConflict" => lastOp.ret = "DUPLICATED"
           /\ aError = "Unsupported" => lastOp.ret = "NOT_IMPLEMENTED"
           /\ aError = "ServiceNotRunning" => lastOp.ret = "INVALID_STATE"
           /\ aError \notin Named => lastOp.ret = "MDNS"

C22_Witness ==
    /\ lastOp.op = "DNSErrorToOtbrError"
    /\ lastOp.params = <<"ServiceNotRunning">>
    /\ lastOp.ret = "INVALID_STATE"

\* C23: MakeRegType(type, subTypes) is the type followed by each sub-type
\* prefixed with a comma, the sub-types in lexical order, and is the same
\* string for every permutation of the sub-type list
\* (("_test._udp", <<"_b", "_a">>) gives "_test._udp,_a,_b"); with an empty
\* list it is the type unchanged.
Permuted(l) == {[i \in 1..Len(l) |-> l[p[i]]] : p \in Permutations(1..Len(l))}

\* the sub-type names in lexical order, each as often as it occurs in l
RECURSIVE InLexicalOrder(_, _)
InLexicalOrder(l, n) ==
    IF n > Len(SubTypeNames) THEN <<>>
    ELSE SelectSeq(l, LAMBDA x : x = SubTypeNames[n]) \o InLexicalOrder(l, n + 1)

RECURSIVE CommaPrefixed(_)
CommaPrefixed(l) == IF l = <<>> THEN "" ELSE "," \o Head(l) \o CommaPrefixed(Tail(l))

C23_MakeRegType ==
    lastOp.op = "MakeRegType" =>
        LET aType == lastOp.params[1]
            aSubTypeList == lastOp.params[2]
        IN /\ lastOp.ret = aType \o CommaPrefixed(InLexicalOrder(aSubTypeList, 1))
           /\ \A l \in Permuted(aSubTypeList) : MakeRegType(aType, l) = lastOp.ret
           /\ aSubTypeList = <<>> => lastOp.ret = aType
           /\ (aType = "_test._udp" /\ aSubTypeList = <<"_b", "_a">>) =>
                 lastOp.ret = "_test._udp,_a,_b"

C23_Witness ==
    /\ lastOp.op = "MakeRegType"
    /\ lastOp.params = <<"_test._udp", <<"_b", "_a">>>>
    /\ lastOp.ret = "_test._udp,_a,_b"

\* C24: after Update the read set holds the descriptor of the shared handle
\* (when allocated) and of every service subscription, resolution child and
\* host subscription with a non-null handle, the maximum descriptor is at
\* least every descriptor in the set and Update changed nothing else; so the
\* connection of every stored registration with a live handle is in the set.
SubscriptionHandles ==
    ({mSubscribedServices[i].mServiceRef : i \in 1..Len(mSubscribedServices)}
     \cup UNION {{mSubscribedServices[i].mResolvingInstances[j].mServiceRef :
                     j \in 1..Len(mSubscribedServices[i].mResolvingInstances)} :
                 i \in 1..Len(mSubscribedServices)}
     \cup {mSubscribedHosts[i].mServiceRef : i \in 1..Len(mSubscribedHosts)}) \ {0}

RegistrationHandles ==
    {mServiceRegistrations[i].mServiceRef : i \in 1..Len(mServiceRegistrations)}
    \cup {mHostRegistrations[i].mServiceRef : i \in 1..Len(mHostRegistrations)}
    \cup {mKeyRegistrations[i].mServiceRef : i \in 1..Len(mKeyRegistrations)}

\* the connection whose socket carries the replies of a live handle
ConnectionOf(ref) ==
    LET r == CHOOSE r \in liveRefs : r.ref = ref
    IN IF r.parent # 0 THEN r.parent ELSE ref

C24_Update ==
    [][lastOp'.op = "Process" =>
          LET U == Update(Cur)
          IN /\ mReadFdSet' = U.fds
             /\ mHostsAndKeysRef # 0 => DNSServiceRefSockFD(mHostsAndKeysRef) \in mReadFdSet'
             /\ \A h \in SubscriptionHandles : DNSServiceRefSockFD(h) \in mReadFdSet'
             /\ \A fd \in mReadFdSet' : U.maxfd >= fd
             /\ U = [Cur EXCEPT !.fds = U.fds, !.maxfd = U.maxfd]
             /\ \A h \in RegistrationHandles \cap LiveHandles :
                   DNSServiceRefSockFD(ConnectionOf(h)) \in mReadFdSet']_vars

\* a tick whose Update found the shared handle, a registration on it and a
\* resolution child
C24_Witness ==
    /\ lastOp.op = "Process"
    /\ mHostsAndKeysRef # 0 /\ mHostsAndKeysRef \in mReadFdSet
    /\ RegistrationHandles \cap LiveHandles # {}
    /\ SubscriptionHandles \cap mReadFdSet # {}

\* C25: during Stop, also the Stop of a Process restart, no teardown step of
\* a swapped-out registration (withdrawal update, record removal, service
\* handle deallocation) is issued on the shared connection after the shared
\* handle was deallocated: after that deallocation no daemon call of the
\* handler works on a freed handle.
C25_TeardownBeforeRelease ==
    [][(lastOp'.op \in {"Stop", "Process"} /\ mHostsAndKeysRef # 0) =>
          \A d \in EventsOf(log', {"RefDeallocate"}) :
              (log'[d].id = mHostsAndKeysRef /\ log'[d].ok) =>
                  \A n \in (d + 1)..Len(log') :
                      log'[n].ev \in {"UpdateRecord", "RemoveRecord", "RefDeallocate",
                                      "terminate"} => log'[n].ok]_vars

\* C26: in a completion handler (browse, service resolve, address lookup,
\* host resolve) nothing of the subscription or resolution object is touched
\* after a consumer notification was invoked: no handle is released and no
\* child is removed from its parent once the notification is in the trace.
ConsumerNotifications ==
    {"OnServiceResolved", "OnServiceResolveFailed", "OnServiceRemoved", "OnHostResolved",
     "OnHostResolveFailed"}

C26_NothingAfterNotification ==
    (lastOp.op = "Process" /\ Len(lastOp.params) = 1) =>
        \A n \in EventsOf(log, ConsumerNotifications) :
            \A m \in (n + 1)..Len(log) :
                log[m].ev \notin {"RefDeallocate", "RemoveInstanceResolution"}

\* C29: when the daemon's reply for a stored registration that is not yet
\* completed is not a success (service: error code other than no-error, or
\* add flag absent; host or key record: error code other than no-error), the
\* registration is removed from its map and each callback it stored is
\* invoked with an error code other than success.
RepliedRegistration(reply) ==
    IF reply.kind = "svc"
    THEN LET i == FindServiceRegistration(Cur, reply.id)
         IN IF i = 0 THEN <<>> ELSE <<mServiceRegistrations[i]>>
    ELSE LET h == FindHostRegistration(Cur, mHostsAndKeysRef, reply.id)
             k == FindKeyRegistration(Cur, mHostsAndKeysRef, reply.id)
         IN IF h # 0 THEN <<mHostRegistrations[h]>>
            ELSE IF k # 0 THEN <<mKeyRegistrations[k]>>
            ELSE <<>>

ReplyIsSuccess(reply) ==
    reply.err = "NoError" /\ (reply.kind = "svc" => reply.add)

C29_AsyncFailureRemoves ==
    [][(lastOp'.op = "Process" /\ Len(lastOp'.params) = 1) =>
          LET reply == lastOp'.params[1]
              stored == RepliedRegistration(reply)
          IN (/\ reply.kind \in {"svc", "rec"}
              /\ stored # <<>> /\ ~IsCompleted(stored[1])
              /\ ~ReplyIsSuccess(reply)) =>
                 /\ \A i \in 1..Len(mServiceRegistrations') :
                       mServiceRegistrations'[i].key # stored[1].key
                 /\ \A i \in 1..Len(mHostRegistrations') :
                       mHostRegistrations'[i].key # stored[1].key
                 /\ \A i \in 1..Len(mKeyRegistrations') :
                       mKeyRegistrations'[i].key # stored[1].key
                 /\ \A c \in Range(stored[1].mCallback) :
                       /\ CallbackEvents(log', c) # {}
                       /\ \A n \in CallbackEvents(log', c) : log'[n].err # "NONE"]_vars

\* C30: a host registration with N address records becomes completed, its
\* callbacks invoked with success, only in a tick after which the daemon has
\* confirmed all N records; while a record is unconfirmed it is not
\* completed; a failure reply for one of its records removes the whole
\* registration and invokes its callbacks with the mapped error.
Unconfirmed(reg, records) ==
    {j \in 1..Len(reg.mRecordRefMap) :
        \E r \in records : r.rec = reg.mRecordRefMap[j].rec /\ r.awaiting}

C30_HostCompletion ==
    [][\A i \in 1..Len(mHostRegistrations) :
          LET reg == mHostRegistrations[i]
              j == MapFind(mHostRegistrations', reg.key)
              same == j # 0 /\ mHostRegistrations'[j].mRecordRefMap = reg.mRecordRefMap
              replies == IF lastOp'.op = "Process" THEN lastOp'.params ELSE <<>>
              failed == \E n \in 1..Len(replies) :
                           /\ replies[n].kind = "rec" /\ replies[n].err # "NoError"
                           /\ \E k \in 1..Len(reg.mRecordRefMap) :
                                  reg.mRecordRefMap[k].rec = replies[n].id
          IN ~IsCompleted(reg) =>
                /\ (same /\ IsCompleted(mHostRegistrations'[j])) =>
                       /\ lastOp'.op = "Process"
                       /\ Unconfirmed(reg, liveRecs') = {}
                       /\ \A c \in Range(reg.mCallback) :
                             \E n \in CallbackEvents(log', c) : log'[n].err = "NONE"
                /\ (same /\ Unconfirmed(reg, liveRecs') # {}) =>
                       ~IsCompleted(mHostRegistrations'[j])
                /\ (Len(replies) = 1 /\ failed) =>
                       /\ j = 0
                       /\ \A c \in Range(reg.mCallback) :
                             \E n \in CallbackEvents(log', c) :
                                log'[n].err = DNSErrorToOtbrError(replies[1].err)]_vars

\* the second of two records was confirmed: the registration is completed
C30_Witness ==
    /\ lastOp.op = "Process" /\ Len(lastOp.params) = 1
    /\ lastOp.params[1].kind = "rec" /\ lastOp.params[1].err = "NoError"
    /\ \E i \in 1..Len(mHostRegistrations) :
          /\ Len(mHostRegistrations[i].mRecordRefMap) = 2
          /\ IsCompleted(mHostRegistrations[i])
          /\ mHostRegistrations[i].mRecordRefMap[2].rec = lastOp.params[1].id
    /\ \E n \in 1..Len(log) : log[n].ev = "cb" /\ log[n].err = "NONE"

\* C27: within one Process call every handle handed to
\* DNSServiceProcessResult is still allocated when it is dispatched, also
\* after an earlier handle of the tick finished a resolution child, released
\* a handle or had the consumer unsubscribe.
C27_DispatchedHandlesLive ==
    lastOp.op = "Process" =>
        \A n \in EventsOf(log, {"ProcessResult"}) : log[n].ok

\* C28: a resolution child is removed from its parent exactly once: the
\* membership assertion of RemoveInstanceResolution never fails and no tick
\* removes the child of one handle twice.
C28_RemovedOnce ==
    lastOp.op = "Process" =>
        /\ \A n \in EventsOf(log, {"terminate"}) : log[n].err # "assert"
        /\ \A n, m \in EventsOf(log, {"RemoveInstanceResolution"}) :
              (log[n].id = log[m].id /\ log[n].id # 0) => n = m

\* C31: a key registration PublishKey has stored becomes completed and its
\* callback is invoked with success, when the daemon accepts the request,
\* every pending reply is processed and the key is neither unpublished nor
\* superseded; also when a service registration with the same full name
\* existed at publish time.
KeyPending(id) ==
    \E i \in 1..Len(mKeyRegistrations) : id \in Range(mKeyRegistrations[i].mCallback)

KeyCompleted(id) ==
    /\ \E i \in 1..Len(mKeyRegistrations) : IsCompleted(mKeyRegistrations[i])
    /\ \E n \in 1..Len(log) : log[n].ev = "cb" /\ log[n].id = id /\ log[n].err = "NONE"

C31_KeyCompletes == \A id \in CbIds : KeyPending(id) ~> KeyCompleted(id)

\* C32: the withdrawal update and the record removal issued when a key
\* registration is destroyed go to the connection handle on which the key
\* record was registered or added: a key record the daemon still holds is
\* updated and removed on the handle the daemon holds it on.
KeyRecords == {mKeyRegistrations[i].mRecordRef : i \in 1..Len(mKeyRegistrations)}

C32_KeyTeardownHandle ==
    [][\A n \in 1..Len(log') :
          (log'[n].ev \in {"UpdateRecord", "RemoveRecord"} /\ log'[n].rec \in KeyRecords)
          => \A r \in liveRecs : r.rec = log'[n].rec => r.conn = log'[n].id]_vars

\* C33: a service-register reply whose handle matches no entry of the
\* service registration map is ignored: no map, callback or state changes
\* and the process goes on.
StaleReplies(op) ==
    {n \in 1..Len(op.params) : op.op = "Process" /\ op.params[n].kind = "stale"}

C33_UnmatchedReplyIgnored ==
    [][StaleReplies(lastOp') # {}
       => /\ UNCHANGED <<mState, mHostsAndKeysRef, mServiceRegistrations,
                         mHostRegistrations, mKeyRegistrations, callbacks, liveRefs>>
          /\ ~crashed'
          /\ \A n \in 1..Len(log') : log'[n].ev = "ProcessResult"]_vars

\* C34: a caller that tracks its own subscriptions never trips the existence
\* assertion of UnsubscribeService / UnsubscribeHost, whatever Stop, Start
\* and restarts by Process happened in between, and the call removes exactly
\* one matching subscription and leaves every other one as it was.
C34_UnsubscribeFindsMatch ==
    [][(lastOp'.op \in {"UnsubscribeService", "UnsubscribeHost"} /\ mState = kReady)
       => /\ ~crashed'
          /\ IF lastOp'.op = "UnsubscribeService"
             THEN /\ mSubscribedHosts' = mSubscribedHosts
                  /\ \E i \in 1..Len(mSubscribedServices) :
                       /\ mSubscribedServices[i].mType = lastOp'.params[1]
                       /\ mSubscribedServices[i].mInstanceName = lastOp'.params[2]
                       /\ mSubscribedServices' = RemoveAt(mSubscribedServices, i)
             ELSE /\ mSubscribedServices' = mSubscribedServices
                  /\ \E i \in 1..Len(mSubscribedHosts) :
                       /\ mSubscribedHosts[i].mHostName = lastOp'.params[2]
                       /\ mSubscribedHosts' = RemoveAt(mSubscribedHosts, i)]_vars

\* C35: for a browsing subscription an error-free browse reply with the add
\* flag appends exactly one resolution child, for the instance and interface
\* of the reply, and starts its resolve; an error-free browse reply without
\* the add flag invokes OnServiceRemoved once, with the reply's interface
\* index, the subscription's type and the reply's instance name, and
\* creates no child.
BrowseReplied(op) ==
    /\ op.op = "Process" /\ Len(op.params) = 1
    /\ op.params[1].kind = "Browse" /\ op.params[1].err = "NoError"

C35_BrowseReply ==
    [][(BrowseReplied(lastOp') /\ ~crashed') =>
          LET reply == lastOp'.params[1]
              i == BrowseContext(Cur, reply.id)
              old == mSubscribedServices[i].mResolvingInstances
              new == mSubscribedServices'[i].mResolvingInstances
              resolves == EventsOf(log', {"Resolve"})
              removals == EventsOf(log', {"OnServiceRemoved"})
          IN /\ mSubscribedServices[i].mInstanceName = ""
             /\ Len(mSubscribedServices') = Len(mSubscribedServices)
             /\ \A k \in 1..Len(mSubscribedServices) :
                   k # i => mSubscribedServices'[k] = mSubscribedServices[k]
             /\ IF reply.add
                THEN /\ Len(new) = Len(old) + 1
                     /\ SubSeq(new, 1, Len(old)) = old
                     /\ Last(new).mInstanceName = reply.name
                     /\ Last(new).mNetifIndex = reply.netif
                     /\ Cardinality(resolves) = 1
                     /\ \A n \in resolves : log'[n].id = Last(new).mServiceRef
                     /\ removals = {}
                ELSE /\ new = old
                     /\ resolves = {}
                     /\ Cardinality(removals) = 1
                     /\ \A n \in removals :
                           /\ log'[n].info.mNetifIndex = reply.netif
                           /\ log'[n].type = mSubscribedServices[i].mType
                           /\ log'[n].name = reply.name]_vars

\* a browse reply announced instance "i": its resolve is running
C35_Witness ==
    /\ BrowseReplied(lastOp) /\ lastOp.params[1].add /\ ~crashed
    /\ \E i \in 1..Len(mSubscribedServices) :
          /\ mSubscribedServices[i].mInstanceName = ""
          /\ mSubscribedServices[i].mResolvingInstances # <<>>
          /\ Last(mSubscribedServices[i].mResolvingInstances).mServiceRef \in LiveHandles
          /\ Last(mSubscribedServices[i].mResolvingInstances).mInstanceName = "i"

\* C36: a resolution child stays in its parent's list, unchanged, while its
\* address replies are error-free but rejected (no add flag, not IPv6, or an
\* unspecified, link-local, multicast or loopback address); the first
\* accepted address and the first address error finish it: it leaves the
\* list and its instance info is reported once.  The instance info of a
\* finished resolution holds at most one address.
AddressReplied(op) ==
    /\ op.op = "Process" /\ Len(op.params) = 1
    /\ op.params[1].kind = "GetAddrInfo"
    /\ ResolutionContext(Cur, op.params[1].id) # <<0, 0>>

AddressAccepted(reply) ==
    /\ reply.err = "NoError" /\ reply.add /\ reply.family = "AF_INET6"
    /\ ~IsUnspecified(reply.address) /\ ~IsLinkLocal(reply.address)
    /\ ~IsMulticast(reply.address) /\ ~IsLoopback(reply.address)

C36_ChildUntilAddressOrError ==
    [][(AddressReplied(lastOp') /\ ~crashed') =>
          LET reply == lastOp'.params[1]
              c == ResolutionContext(Cur, reply.id)
              old == mSubscribedServices[c[1]].mResolvingInstances
              resolved == EventsOf(log', {"OnServiceResolved"})
          IN IF reply.err = "NoError" /\ ~AddressAccepted(reply)
             THEN /\ mSubscribedServices' = mSubscribedServices
                  /\ resolved = {}
             ELSE /\ mSubscribedServices' =
                        [mSubscribedServices EXCEPT
                            ![c[1]].mResolvingInstances = RemoveAt(old, c[2])]
                  /\ Cardinality(resolved) = 1
                  /\ \A n \in resolved :
                        /\ log'[n].name = old[c[2]].mInstanceInfo.mName
                        /\ Len(log'[n].info.mAddresses) <= 1
                        /\ AddressAccepted(reply)
                           => log'[n].info.mAddresses = <<reply.address>>]_vars

\* a link-local address was offered: the resolution goes on
C36_Witness ==
    /\ lastOp.op = "Process" /\ Len(lastOp.params) = 1 /\ ~crashed
    /\ lastOp.params[1].kind = "GetAddrInfo" /\ lastOp.params[1].err = "NoError"
    /\ lastOp.params[1].add /\ IsLinkLocal(lastOp.params[1].address)
    /\ ResolutionContext(Cur, lastOp.params[1].id) # <<0, 0>>
    /\ EventsOf(log, {"OnServiceResolved"}) = {}

\* C37: every OnServiceResolved notification carries instance info with at
\* least one address.
C37_ResolvedHasAddress ==
    \A n \in EventsOf(log, {"OnServiceResolved"}) : log[n].info.mAddresses # <<>>

\* C38: every OnServiceResolveFailed and OnHostResolveFailed notification
\* carries an error code other than no-error.
C38_FailureCarriesError ==
    \A n \in EventsOf(log, {"OnServiceResolveFailed", "OnHostResolveFailed"}) :
        log[n].err # "NoError"

\* C39: in every step that destroys a stored host or key registration holding
\* a handle, a record removal is issued for each record it owns, and a
\* withdrawal update is issued for that record if and only if the
\* registration was completed when it was torn down: it was stored completed,
\* or its callback was invoked earlier in the step than the removal.
DestroyedHosts ==
    {reg \in Range(mHostRegistrations) :
        /\ reg.mServiceRef # 0
        /\ \A kept \in Range(mHostRegistrations') :
              kept.key # reg.key \/ kept.mRecordRefMap # reg.mRecordRefMap}

DestroyedKeys ==
    {reg \in Range(mKeyRegistrations) :
        /\ reg.mServiceRef # 0
        /\ \A kept \in Range(mKeyRegistrations') :
              kept.key # reg.key \/ kept.mRecordRef # reg.mRecordRef}

CompletedAt(l, reg, n) ==
    \/ IsCompleted(reg)
    \/ \E m \in EventsOf(l, {"cb"}) : m < n /\ l[m].id \in Range(reg.mCallback)

TeardownIssued(l, reg, rec) ==
    \E n \in EventsOf(l, {"RemoveRecord"}) :
        /\ l[n].id = reg.mServiceRef /\ l[n].rec = rec
        /\ (\E u \in EventsOf(l, {"UpdateRecord"}) :
                l[u].id = reg.mServiceRef /\ l[u].rec = rec /\ u < n)
              <=> CompletedAt(l, reg, n)

TeardownOfDestroyed ==
    /\ \A reg \in DestroyedHosts : \A j \in 1..Len(reg.mRecordRefMap) :
          TeardownIssued(log', reg, reg.mRecordRefMap[j].rec)
    /\ \A reg \in DestroyedKeys : TeardownIssued(log', reg, reg.mRecordRef)

RunStep(from, to) == app.pc = from /\ app'.pc = to

C40_Run ==
    [][/\ app'.pc = "update" /\ app.pc # "update" =>
             /\ app.pc = "loop" /\ ~app.sShouldTerminate
             /\ app'.mainloop = FreshContext
       /\ app.pc = "loop" /\ app'.pc # "loop" =>
             /\ app'.pc = (IF app.sShouldTerminate THEN "returned" ELSE "update")
             /\ app'.error = app.error
       /\ app'.pc = "select" /\ app.pc # "select" =>
             /\ app.pc = "update" /\ lastOp'.op = "Update"
             /\ app'.mainloop.mMaxFd >= -1
             /\ \A fd \in app'.mainloop.mReadFdSet : fd <= app'.mainloop.mMaxFd
       /\ app'.pc = "process" /\ app.pc # "process" =>
             /\ app.pc = "select" /\ app'.rval >= 0
             /\ app'.mainloop.mReadFdSet \subseteq app.mainloop.mReadFdSet
       /\ lastOp'.op = "Process" /\ lastOp' # lastOp =>
             /\ RunStep("process", "others") /\ app.rval >= 0
             /\ \A n \in EventsOf(log', {"ProcessResult"}) :
                   log'[n].id \in app.mainloop.mReadFdSet
       /\ app.pc = "select" /\ app'.pc # "select" /\ app'.rval < 0 =>
             /\ lastOp' = lastOp /\ log' = log
             /\ IF app'.errno = "EINTR"
                THEN app'.pc = "loop" /\ app'.error = app.error
                ELSE app'.pc = "returned" /\ app'.error = "ERRNO"
       /\ app.pc = "others" /\ app'.pc # "others" =>
             /\ app'.pc = (IF app'.error # "NONE" THEN "returned" ELSE "loop")
             /\ ~app.mErrorCondition => app'.error = app.error
       /\ app'.pc = "returned" /\ app.pc # "returned" =>
             \/ app.pc = "loop" /\ app.sShouldTerminate
             \/ app.pc = "select" /\ app'.rval < 0 /\ app'.errno # "EINTR"
             \/ app.pc = "others" /\ app.mErrorCondition /\ app'.error # "NONE"]_vars

\* a signal interrupted the wait of a tick that had descriptors to wait on:
\* Process was skipped and Run ended at the loop condition without an error
C40_Witness ==
    /\ app.pc = "returned" /\ app.sShouldTerminate /\ app.error = "NONE"
    /\ app.rval = -1 /\ app.errno = "EINTR"
    /\ app.mainloop.mReadFdSet # {}

====
